---- MODULE Spec2Model ----
(***************************************************************************)
(* DSV4L2: device core (dsv4l2_core.c), TEMPEST engine and capture policy  *)
(* gate (dsv4l2_tempest.c), together with the V4L2 driver they talk to and *)
(* the events they hand to the runtime; the profile loader                 *)
(* (dsv4l2_profiles.c); and, as the specification describes them, the      *)
(* runtime's event ring and the metadata (KLV) parser.                     *)
(*                                                                         *)
(* One device handle is modelled.  Every public operation is one action:   *)
(* the handler runs to completion, the ioctls it issued are left in        *)
(* `ioctls`, its return code and arguments in `last`.                      *)
(***************************************************************************)
EXTENDS Integers, Sequences, FiniteSets, TLC

VARIABLES
    opened,          \* the handle returned by dsv4l2_open_device is live
    profile,         \* dev_ex->profile: 0 = NULL, else an index into Profiles
    layer,           \* dev->layer
    tempest_state,   \* dev_ex->tempest_state
    current_format,  \* dev_ex->current_format: NoFormat = NULL, else [w, h]
    current_parm,    \* dev_ex->current_parm: NoParm = NULL, else [num, den]
    streaming,       \* dev_ex->streaming
    num_buffers,     \* dev_ex->num_buffers
    buffers,         \* dev_ex->buffers: sequence of [start, length]; <<>> = NULL
    drv_in,          \* driver: incoming queue (slots queued, not yet filled)
    drv_done,        \* driver: outgoing queue (filled slots, FIFO)
    frame,           \* *out_frame as the last capture left it
    threatcon,       \* process-wide THREATCON
    clearance,       \* process-wide clearance
    emitted,         \* events the latest operation handed to the runtime, in order
    gate_log,        \* inputs and result of the latest policy gate invocation
    ioctls,          \* system calls issued by the latest operation, in order
    last,            \* the latest operation: [op, rc, gate, state, null, arg]
    profile_files,   \* the profile directory: role -> YAML events of {role}.yaml
    out_profile,     \* *out_profile as the last profile load left it
    klv_buffer,      \* the bytes handed to dsv4l2_parse_klv
    meta_buffers,    \* the timestamps handed to dsv4l2_sync_metadata
    meta,            \* what the last metadata call returned
    rt,              \* the runtime's event ring, its counters and its lock
    emitters,        \* the threads emitting into the ring: [pc, sent]
    rt_history       \* every event stored in the ring so far, in the order stored

dev_vars == <<opened, profile, layer, tempest_state, current_format, current_parm, streaming,
              num_buffers, buffers, frame>>
drv_vars == <<drv_in, drv_done>>
pol_vars == <<threatcon, clearance>>
load_vars == <<profile_files, out_profile>>
meta_vars == <<klv_buffer, meta_buffers, meta>>
rt_vars   == <<rt, emitters, rt_history>>
core_vars == <<dev_vars, drv_vars, pol_vars, emitted, gate_log, ioctls>>
vars == <<core_vars, last, load_vars, meta_vars, rt_vars>>

----------------------------------------------------------------------------
(* Bounds of the model *)

MaxBufs  == 2    \* largest buffer count the driver grants to REQBUFS

----------------------------------------------------------------------------
(* Program constants *)

EPERM  == 1
ENOENT == 2
EIO    == 5
EAGAIN == 11
ENOMEM == 12
EACCES == 13
EINVAL == 22
ENOSYS == 38

DSV4L2_TEMPEST_DISABLED == 0
DSV4L2_TEMPEST_LOW      == 1
DSV4L2_TEMPEST_HIGH     == 2
DSV4L2_TEMPEST_LOCKDOWN == 3

TempestStates == {DSV4L2_TEMPEST_DISABLED, DSV4L2_TEMPEST_LOW,
                  DSV4L2_TEMPEST_HIGH, DSV4L2_TEMPEST_LOCKDOWN}

DefaultBufferCount == 4

NULL       == 0
MAP_FAILED == -1

NoFormat == [w |-> 0, h |-> 0]
NoParm   == [num |-> 0, den |-> 0]
NoFrame  == [data |-> NULL, len |-> 0]
NoGate   == [in |-> <<>>, rc |-> 0, same |-> FALSE]

(* Profiles a caller may pass to dsv4l2_open_device; index 0 stands for NULL. *)
(* The first leaves the TEMPEST control to auto-detection, the second names  *)
(* it and gives the control value of each of the four states.                 *)
Profiles == <<
    [role |-> "generic_webcam", classification |-> "UNCLASSIFIED", buffer_count |-> 0,
     pixel_format |-> 1, width |-> 640, height |-> 480, fps_num |-> 30, fps_den |-> 0,
     controls |-> << [id |-> 1, value |-> 5] >>, num_controls |-> 1,
     tempest_control |-> [control_id |-> 0, disabled_value |-> 0, low_value |-> 0,
                          high_value |-> 0, lockdown_value |-> 0, auto_detect |-> TRUE]],
    [role |-> "iris_scanner", classification |-> "SECRET_BIOMETRIC", buffer_count |-> 2,
     pixel_format |-> 1, width |-> 1920, height |-> 1080, fps_num |-> 0, fps_den |-> 0,
     controls |-> << [id |-> 1, value |-> 5], [id |-> 2, value |-> 7] >>, num_controls |-> 2,
     tempest_control |-> [control_id |-> 9, disabled_value |-> 10, low_value |-> 11,
                          high_value |-> 12, lockdown_value |-> 13, auto_detect |-> FALSE]] >>

ProfileIds == 0 .. Len(Profiles)

Role(p)           == IF p = 0 THEN "" ELSE Profiles[p].role
Classification(p) == IF p = 0 THEN "" ELSE Profiles[p].classification

(* Formats a caller asks for, and the driver negotiates. *)
Formats == { [w |-> 640, h |-> 480], [w |-> 1920, h |-> 1080] }

(* bytesused values the driver reports for a slot of length BufLen: a partly *)
(* filled slot and a full one                                               *)
BufLen == 2
BytesUsed == {1, BufLen}

----------------------------------------------------------------------------
(* Events handed to the runtime (dsv4l2rt_log_* calls) *)

(* `at` is the number of system calls the operation had issued when it logged *)
(* the event.                                                                 *)
Event(cat, a, b) == [cat |-> cat, a |-> a, b |-> b, at |-> 0]

At(e, n) == [e EXCEPT !.at = n]

(* Variant: the transition logged with its ends exchanged *)
dsv4l2rt_log_tempest_transition_swapped(old, new) == Event("tempest_transition", new, old)

dsv4l2rt_log_policy_check(context, rc)    == Event("policy_check", context, rc)
dsv4l2rt_log_tempest_transition(old, new) == Event("tempest_transition", old, new)
dsv4l2rt_log_capture_start                == Event("capture_start", 0, 0)
dsv4l2rt_log_capture_end(rc)              == Event("capture_end", 0, rc)
dsv4l2rt_log_format_change(w, h)          == Event("format_change", w, h)

(* The operation hands the events es to the runtime, in this order. *)
Logged(es) == emitted' = es

----------------------------------------------------------------------------
(* TEMPEST engine and policy gate (dsv4l2_tempest.c) *)

(* Variant: the cache is not read *)
dsv4l2_get_tempest_state_disabled(dev_null) == DSV4L2_TEMPEST_DISABLED

dsv4l2_get_tempest_state(dev_null) ==
    IF dev_null THEN DSV4L2_TEMPEST_DISABLED ELSE tempest_state

(* Variants of the decision: LOCKDOWN compared with > instead of ==, and a     *)
(* decision that also looks at the streaming flag.                            *)
policy_result_gt(current_state) ==
    IF current_state > DSV4L2_TEMPEST_LOCKDOWN THEN -EACCES ELSE 0

policy_result_streaming(current_state) ==
    IF current_state = DSV4L2_TEMPEST_LOCKDOWN \/ streaming THEN -EACCES ELSE 0

(* The decision of dsv4l2_policy_check_capture for a non-null device. *)
policy_result(current_state) ==
    IF current_state = DSV4L2_TEMPEST_LOCKDOWN THEN -EACCES ELSE 0

(* dsv4l2_policy_check_capture: return code and the events it logs. *)
dsv4l2_policy_check_capture(dev_null, current_state, context) ==
    IF dev_null
    THEN [rc |-> -EINVAL, log |-> <<>>]
    ELSE [rc  |-> policy_result(current_state),
          log |-> <<dsv4l2rt_log_policy_check(context, policy_result(current_state))>>]

(* What the gate is specified to depend on, as the device and the process hold it. *)
GateInputs(dev_null, current_state) ==
    <<dev_null, Role(profile), Classification(profile), layer, current_format,
      current_state, threatcon, clearance>>

(* The record a step leaves in `last`: the operation, its return code, the    *)
(* return code of the policy gate it ran (NoRc when it ran none), the TEMPEST *)
(* state it handed to the gate or started from, and whether a required        *)
(* pointer argument was NULL; `arg` holds further arguments of the call.      *)
NoRc == <<>>
Op(op, rc, gate, st) ==
    [op |-> op, rc |-> rc, gate |-> gate, state |-> st, null |-> FALSE, arg |-> <<>>]
OpNull(op, rc) ==
    [op |-> op, rc |-> rc, gate |-> NoRc, state |-> tempest_state, null |-> TRUE,
     arg |-> <<>>]

(* Variant: the gate's negative return code tested with > 0 *)
policy_denied_positive(policy_rc) == policy_rc > 0

(* dsv4l2_capture_frame / dsv4l2_capture_iris: `if (policy_rc != 0)` *)
policy_denied(policy_rc) == policy_rc # 0

(* Variant: capture_end logged before capture_start *)
capture_success_log_swapped(n) ==
    <<At(dsv4l2rt_log_capture_end(0), n), At(dsv4l2rt_log_capture_start, n)>>

(* The events a capture logs once QBUF has succeeded; n system calls were issued *)
capture_success_log(n) ==
    <<At(dsv4l2rt_log_capture_start, n), At(dsv4l2rt_log_capture_end(0), n)>>

(* Variant: the streaming flag is not tested before DQBUF *)
capture_not_streaming_never(is_streaming) == FALSE

(* dsv4l2_capture_frame / dsv4l2_capture_iris: `if (!dev_ex->streaming)` *)
capture_not_streaming(is_streaming) == ~is_streaming

(* Variant: every DQBUF failure reported as an I/O error *)
dqbuf_failed_generic(errno) == -EIO

(* dsv4l2_capture_frame / dsv4l2_capture_iris: `return -errno;` after DQBUF *)
dqbuf_failed(errno) == -errno

(* Variant: the frame's data pointer left as the caller passed it *)
frame_view_stale(bufs, index, bytesused) == [data |-> frame.data, len |-> bytesused]

(* dsv4l2_capture_frame: *out_frame filled from the dequeued buffer *)
frame_view(bufs, index, bytesused) == [data |-> bufs[index].start, len |-> bytesused]

(* Variant: the biometric frame's length left as the caller passed it *)
biometric_frame_view_nolen(bufs, index, bytesused) ==
    [data |-> bufs[index].start, len |-> frame.len]

(* dsv4l2_capture_iris: *out_frame filled from the dequeued buffer *)
biometric_frame_view(bufs, index, bytesused) ==
    [data |-> bufs[index].start, len |-> bytesused]

(* The facade call dsv4l2_policy_check_capture(dev, state, context). *)
PolicyCheckCapture ==
    \E dev_null \in BOOLEAN, s \in TempestStates :
        LET g == dsv4l2_policy_check_capture(dev_null, s, "caller") IN
        /\ opened
        /\ Logged(g.log)
        /\ ioctls' = <<>>
        /\ last' = [Op("policy_check_capture", g.rc, <<g.rc>>, s) EXCEPT !.null = dev_null]
        /\ UNCHANGED <<dev_vars, drv_vars, pol_vars>>

GetTempestState ==
    \E dev_null \in BOOLEAN :
        /\ opened
        /\ last' = [Op("get_tempest_state", dsv4l2_get_tempest_state(dev_null), NoRc,
                       tempest_state) EXCEPT !.null = dev_null]
        /\ ioctls' = <<>>
        /\ Logged(<<>>)
        /\ UNCHANGED <<dev_vars, drv_vars, pol_vars>>

SetTempestState ==
    \E dev_null \in BOOLEAN, target \in TempestStates :
        /\ opened
        /\ IF dev_null
           THEN /\ last' = OpNull("set_tempest_state", -EINVAL)
                /\ Logged(<<>>)
                /\ UNCHANGED <<tempest_state>>
           ELSE /\ tempest_state' = target
                /\ Logged(<<dsv4l2rt_log_tempest_transition(tempest_state, target)>>)
                /\ last' = [Op("set_tempest_state", 0, NoRc, tempest_state)
                               EXCEPT !.arg = <<target>>]
        /\ ioctls' = <<>>
        /\ UNCHANGED <<opened, profile, layer, current_format, current_parm, streaming, num_buffers,
                       buffers, frame, drv_vars, pol_vars>>

----------------------------------------------------------------------------
(* Device core (dsv4l2_core.c) *)

(* dsv4l2_capture_frame.  dq_err, q_err: DQBUF / QBUF fail in the driver;     *)
(* used: the bytesused the driver reports.                                    *)
CaptureFrame ==
    \E dev_null \in BOOLEAN, frame_null \in BOOLEAN :
        /\ opened
        /\ IF dev_null \/ frame_null
           THEN /\ last' = OpNull("capture_frame", -EINVAL)
                /\ ioctls' = <<>>
                /\ Logged(<<>>)
                /\ UNCHANGED <<frame, drv_vars>>
           ELSE
             LET state == dsv4l2_get_tempest_state(FALSE)
                 g     == dsv4l2_policy_check_capture(FALSE, state, "dsv4l2_capture_frame")
             IN
             /\ IF policy_denied(g.rc)
                THEN /\ last' = Op("capture_frame", -EACCES, <<g.rc>>, state)
                     /\ ioctls' = <<>>
                     /\ Logged(g.log)
                     /\ UNCHANGED <<frame, drv_vars>>
                ELSE IF capture_not_streaming(streaming)
                THEN /\ last' = Op("capture_frame", -EINVAL, <<g.rc>>, state)
                     /\ ioctls' = <<>>
                     /\ Logged(g.log)
                     /\ UNCHANGED <<frame, drv_vars>>
                ELSE IF drv_done = <<>>
                THEN /\ last' = Op("capture_frame", dqbuf_failed(EAGAIN), <<g.rc>>, state)
                     /\ ioctls' = << <<"DQBUF", 0>> >>
                     /\ Logged(g.log)
                     /\ UNCHANGED <<frame, drv_vars>>
                ELSE
                  \/ /\ last' = Op("capture_frame", dqbuf_failed(EIO), <<g.rc>>, state)
                     /\ ioctls' = << <<"DQBUF", 0>> >>
                     /\ Logged(g.log)
                     /\ UNCHANGED <<frame, drv_vars>>
                  \/ \E used \in BytesUsed, q_err \in BOOLEAN :
                     LET index == Head(drv_done) IN
                     /\ frame' = frame_view(buffers, index, used)
                     /\ drv_done' = Tail(drv_done)
                     /\ ioctls' = << <<"DQBUF", index>>, <<"QBUF", index>> >>
                     /\ IF q_err
                           THEN /\ last' = Op("capture_frame", -EIO, <<g.rc>>, state)
                             /\ Logged(g.log)
                             /\ UNCHANGED drv_in
                        ELSE /\ last' = Op("capture_frame", 0, <<g.rc>>, state)
                             /\ drv_in' = Append(drv_in, index)
                             /\ Logged(g.log \o capture_success_log(2))
        /\ UNCHANGED <<opened, profile, layer, tempest_state, current_format, current_parm, streaming,
                       num_buffers, buffers, pol_vars>>

(* dsv4l2_capture_iris *)
CaptureIris ==
    \E dev_null \in BOOLEAN, frame_null \in BOOLEAN :
        /\ opened
        /\ IF dev_null \/ frame_null
           THEN /\ last' = OpNull("capture_iris", -EINVAL)
                /\ ioctls' = <<>>
                /\ Logged(<<>>)
                /\ UNCHANGED <<frame, drv_vars>>
           ELSE
             LET state == dsv4l2_get_tempest_state(FALSE)
                 g     == dsv4l2_policy_check_capture(FALSE, state, "dsv4l2_capture_iris")
             IN
             /\ IF policy_denied(g.rc)
                THEN /\ last' = Op("capture_iris", -EACCES, <<g.rc>>, state)
                     /\ ioctls' = <<>>
                     /\ Logged(g.log)
                     /\ UNCHANGED <<frame, drv_vars>>
                ELSE IF capture_not_streaming(streaming)
                THEN /\ last' = Op("capture_iris", -EINVAL, <<g.rc>>, state)
                     /\ ioctls' = <<>>
                     /\ Logged(g.log)
                     /\ UNCHANGED <<frame, drv_vars>>
                ELSE IF drv_done = <<>>
                THEN /\ last' = Op("capture_iris", dqbuf_failed(EAGAIN), <<g.rc>>, state)
                     /\ ioctls' = << <<"DQBUF", 0>> >>
                     /\ Logged(g.log)
                     /\ UNCHANGED <<frame, drv_vars>>
                ELSE
                  \/ /\ last' = Op("capture_iris", dqbuf_failed(EIO), <<g.rc>>, state)
                     /\ ioctls' = << <<"DQBUF", 0>> >>
                     /\ Logged(g.log)
                     /\ UNCHANGED <<frame, drv_vars>>
                  \/ \E used \in BytesUsed, q_err \in BOOLEAN :
                     LET index == Head(drv_done) IN
                     /\ frame' = biometric_frame_view(buffers, index, used)
                     /\ drv_done' = Tail(drv_done)
                     /\ ioctls' = << <<"DQBUF", index>>, <<"QBUF", index>> >>
                     /\ IF q_err
                           THEN /\ last' = Op("capture_iris", -EIO, <<g.rc>>, state)
                             /\ Logged(g.log)
                             /\ UNCHANGED drv_in
                        ELSE /\ last' = Op("capture_iris", 0, <<g.rc>>, state)
                             /\ drv_in' = Append(drv_in, index)
                             /\ Logged(g.log \o capture_success_log(2))
        /\ UNCHANGED <<opened, profile, layer, tempest_state, current_format, current_parm, streaming,
                       num_buffers, buffers, pol_vars>>

(* Slot i of the ring once QUERYBUF and mmap have succeeded for it: mmap hands *)
(* out a fresh, non-null address per live mapping.                            *)
MappedSlot(i)  == [start |-> i, length |-> BufLen]
ZeroSlot       == [start |-> NULL, length |-> 0]
FailedSlot     == [start |-> MAP_FAILED, length |-> BufLen]

(* Where a start_stream that has to build the ring can fail. *)
StartOutcomes(count) ==
    { <<"ok", 0>>, <<"REQBUFS", 0>>, <<"calloc", 0>>, <<"STREAMON", 0>> }
    \cup { <<c, i>> : c \in {"QUERYBUF", "mmap", "QBUF"}, i \in 1 .. count }

(* The ring dev_ex->buffers after the mapping loop that stopped as `out` says *)
RingAfter(count, out) ==
    [i \in 1 .. count |->
        IF out[1] \in {"QUERYBUF", "mmap"}
        THEN IF i < out[2] THEN MappedSlot(i)
             ELSE IF i = out[2] /\ out[1] = "mmap" THEN FailedSlot
             ELSE ZeroSlot
        ELSE MappedSlot(i)]

RECURSIVE Calls(_, _, _)
Calls(name, from, to) ==
    IF from > to THEN <<>> ELSE << <<name, from>> >> \o Calls(name, from + 1, to)

RECURSIVE Interleave(_, _, _, _)
Interleave(a, b, from, to) ==
    IF from > to THEN <<>>
    ELSE << <<a, from>>, <<b, from>> >> \o Interleave(a, b, from + 1, to)

Range(lo, hi) == [i \in 1 .. (hi - lo + 1) |-> lo + i - 1]

(* The system calls of a ring construction that ended as `out` says. *)
StartCalls(count, out) ==
    LET c == out[1]
        i == out[2]
    IN  IF c = "REQBUFS" \/ c = "calloc" THEN << <<"REQBUFS", 0>> >>
        ELSE IF c = "QUERYBUF"
        THEN << <<"REQBUFS", 0>> >> \o Interleave("QUERYBUF", "mmap", 1, i - 1)
                \o << <<"QUERYBUF", i>> >>
        ELSE IF c = "mmap"
        THEN << <<"REQBUFS", 0>> >> \o Interleave("QUERYBUF", "mmap", 1, i)
        ELSE IF c = "QBUF"
        THEN << <<"REQBUFS", 0>> >> \o Interleave("QUERYBUF", "mmap", 1, count)
                \o Calls("QBUF", 1, i)
        ELSE << <<"REQBUFS", 0>> >> \o Interleave("QUERYBUF", "mmap", 1, count)
                \o Calls("QBUF", 1, count) \o << <<"STREAMON", 0>> >>

buffer_count ==
    IF profile # 0 /\ Profiles[profile].buffer_count > 0
    THEN Profiles[profile].buffer_count ELSE DefaultBufferCount

(* Variants: the early returns of start_stream and stop_stream never taken *)
start_stream_is_noop_never(is_streaming) == FALSE

stop_stream_is_noop_never(is_streaming) == FALSE

(* dsv4l2_start_stream: `if (dev_ex->streaming) return 0;` *)
start_stream_is_noop(is_streaming) == is_streaming

(* dsv4l2_stop_stream: `if (!dev_ex->streaming) return 0;` *)
stop_stream_is_noop(is_streaming) == ~is_streaming

(* dsv4l2_start_stream *)
StartStream ==
    \E dev_null \in BOOLEAN :
        /\ opened
        /\ IF dev_null
           THEN /\ last' = OpNull("start_stream", -EINVAL)
                /\ ioctls' = <<>>
                /\ UNCHANGED <<streaming, num_buffers, buffers, drv_vars>>
           ELSE IF start_stream_is_noop(streaming)
           THEN /\ last' = Op("start_stream", 0, NoRc, tempest_state)
                /\ ioctls' = <<>>
                /\ UNCHANGED <<streaming, num_buffers, buffers, drv_vars>>
           ELSE IF num_buffers = 0
           THEN \E count \in 1 .. MaxBufs : \E out \in StartOutcomes(count) :
                /\ ioctls' = StartCalls(count, out)
                /\ IF out[1] \in {"REQBUFS", "calloc"}
                   THEN /\ last' = Op("start_stream",
                                      IF out[1] = "calloc" THEN -ENOMEM ELSE -EIO,
                                      NoRc, tempest_state)
                        /\ UNCHANGED <<streaming, num_buffers, buffers, drv_vars>>
                   ELSE /\ num_buffers' = count
                        /\ buffers' = RingAfter(count, out)
                        /\ drv_in' = IF out[1] \in {"QUERYBUF", "mmap"} THEN <<>>
                                     ELSE IF out[1] = "QBUF" THEN Range(1, out[2] - 1)
                                     ELSE Range(1, count)
                        /\ streaming' = (out[1] = "ok")
                        /\ last' = Op("start_stream", IF out[1] = "ok" THEN 0 ELSE -EIO,
                                      NoRc, tempest_state)
                        /\ UNCHANGED drv_done
           ELSE \E out \in { <<"ok", 0>>, <<"STREAMON", 0>> } :
                /\ ioctls' = << <<"STREAMON", 0>> >>
                /\ streaming' = (out[1] = "ok")
                /\ last' = Op("start_stream", IF out[1] = "ok" THEN 0 ELSE -EIO,
                              NoRc, tempest_state)
                /\ UNCHANGED <<num_buffers, buffers, drv_vars>>
        /\ Logged(<<>>)
        /\ UNCHANGED <<opened, profile, layer, tempest_state, current_format, current_parm, frame,
                       pol_vars>>

(* dsv4l2_stop_stream; STREAMOFF takes every buffer out of the driver's queues *)
StopStream ==
    \E dev_null \in BOOLEAN :
        /\ opened
        /\ IF dev_null
           THEN /\ last' = OpNull("stop_stream", -EINVAL)
                /\ ioctls' = <<>>
                /\ UNCHANGED <<streaming, drv_vars>>
           ELSE IF stop_stream_is_noop(streaming)
           THEN /\ last' = Op("stop_stream", 0, NoRc, tempest_state)
                /\ ioctls' = <<>>
                /\ UNCHANGED <<streaming, drv_vars>>
           ELSE \/ /\ last' = Op("stop_stream", -EIO, NoRc, tempest_state)
                   /\ ioctls' = << <<"STREAMOFF_failed", 0>> >>
                   /\ UNCHANGED <<streaming, drv_vars>>
                \/ /\ last' = Op("stop_stream", 0, NoRc, tempest_state)
                   /\ ioctls' = << <<"STREAMOFF", 0>> >>
                   /\ streaming' = FALSE
                   /\ drv_in' = <<>>
                   /\ drv_done' = <<>>
        /\ Logged(<<>>)
        /\ UNCHANGED <<opened, profile, layer, tempest_state, current_format, current_parm, num_buffers,
                       buffers, frame, pol_vars>>

(* The driver fills the slot at the head of its incoming queue. *)
DriverFill ==
    /\ opened /\ streaming /\ drv_in # <<>>
    /\ drv_in' = Tail(drv_in)
    /\ drv_done' = Append(drv_done, Head(drv_in))
    /\ last' = Op("driver_fill", 0, NoRc, tempest_state)
    /\ ioctls' = <<>>
    /\ Logged(<<>>)
    /\ UNCHANGED <<dev_vars, pol_vars>>

(* dsv4l2_open_device: calloc'ed handle, state DISABLED, layer 0, profile copied *)
(* when its malloc succeeds.                                                  *)
OpenDevice ==
    /\ ~opened
    /\ \/ /\ last' = OpNull("open_device", -EINVAL)
          /\ ioctls' = <<>>
          /\ UNCHANGED <<opened, profile>>
       \/ /\ last' = Op("open_device", -ENOENT, NoRc, tempest_state)
          /\ ioctls' = << <<"open", 0>> >>
          /\ UNCHANGED <<opened, profile>>
       \/ \E p \in ProfileIds :
          /\ opened' = TRUE
          /\ profile' \in {p, 0}
          /\ ioctls' = << <<"open", 0>> >>
          /\ last' = Op("open_device", 0, NoRc, DSV4L2_TEMPEST_DISABLED)
    /\ layer' = 0
    /\ tempest_state' = DSV4L2_TEMPEST_DISABLED
    /\ Logged(<<>>)
    /\ UNCHANGED <<current_format, current_parm, streaming, num_buffers, buffers, frame,
                   drv_vars, pol_vars>>

(* Variant: close unmaps every slot of the ring *)
AllSlots == 1 .. num_buffers

(* The slots close unmaps *)
Unmapped == { i \in 1 .. num_buffers : buffers[i].start \notin {NULL, MAP_FAILED} }

RECURSIVE MunmapCalls(_, _)
MunmapCalls(from, to) ==
    IF from > to THEN <<>>
    ELSE (IF from \in Unmapped THEN << <<"munmap", from>> >> ELSE <<>>)
         \o MunmapCalls(from + 1, to)

(* dsv4l2_close_device *)
CloseDevice ==
    \E dev_null \in BOOLEAN :
        /\ opened
        /\ IF dev_null
           THEN /\ last' = OpNull("close_device", 0)
                /\ ioctls' = <<>>
                /\ UNCHANGED <<opened, profile, layer, tempest_state, current_format, current_parm,
                               streaming, num_buffers, buffers, drv_vars>>
           ELSE /\ ioctls' \in
                    { off \o MunmapCalls(1, num_buffers)
                          \o (IF buffers # <<>> THEN << <<"free_ring", 0>> >> ELSE <<>>)
                          \o (IF current_format # NoFormat
                              THEN << <<"free_format", 0>> >> ELSE <<>>)
                          \o (IF current_parm # NoParm
                              THEN << <<"free_parm", 0>> >> ELSE <<>>)
                          \o << <<"close", 0>> >>
                          \o (IF profile # 0 THEN << <<"free_profile", 0>> >> ELSE <<>>)
                      : off \in IF streaming
                                THEN { << <<"STREAMOFF", 0>> >>, << <<"STREAMOFF_failed", 0>> >> }
                                ELSE { <<>> } }
                /\ last' = Op("close_device", 0, NoRc, tempest_state)
                /\ opened' = FALSE
                /\ profile' = 0
                /\ layer' = 0
                /\ tempest_state' = DSV4L2_TEMPEST_DISABLED
                /\ current_format' = NoFormat
                /\ current_parm' = NoParm
                /\ streaming' = FALSE
                /\ num_buffers' = 0
                /\ buffers' = <<>>
                /\ drv_in' = <<>>
                /\ drv_done' = <<>>
        /\ Logged(<<>>)
        /\ UNCHANGED <<frame, pol_vars>>

(* errno values a failing VIDIOC_S_FMT leaves *)
FormatErrnos == {EIO, ENOSYS}

(* dsv4l2_set_format(dev, fmt, req.w, req.h) on a device: the results it can  *)
(* have.  S_FMT fails, or the driver negotiates a format, which is cached     *)
(* (unless the cache is NULL and its malloc fails), and the requested triple  *)
(* is logged.                                                                 *)
dsv4l2_set_format(req) ==
    { [rc |-> -e, calls |-> << <<"S_FMT_failed", e>> >>, fmt |-> current_format,
       log |-> <<>>] : e \in FormatErrnos }
    \cup
    { [rc |-> 0, calls |-> << <<"S_FMT", 0>> >>, fmt |-> f,
       log |-> << At(dsv4l2rt_log_format_change(req.w, req.h), 1) >>]
        : f \in IF current_format # NoFormat THEN Formats ELSE Formats \cup {NoFormat} }

SetFormat ==
    \E dev_null \in BOOLEAN :
        /\ opened
        /\ IF dev_null
           THEN /\ last' = OpNull("set_format", -EINVAL)
                /\ ioctls' = <<>>
                /\ Logged(<<>>)
                /\ UNCHANGED <<current_format>>
           ELSE \E req \in Formats : \E f \in dsv4l2_set_format(req) :
                /\ current_format' = f.fmt
                /\ ioctls' = f.calls
                /\ Logged(f.log)
                /\ last' = Op("set_format", f.rc, NoRc, tempest_state)
        /\ UNCHANGED <<opened, profile, layer, tempest_state, current_parm, streaming,
                       num_buffers, buffers, frame, drv_vars, pol_vars>>

(* Frame rates a caller asks for, and the driver settles on. *)
Framerates == { [num |-> 30, den |-> 1], [num |-> 60, den |-> 1] }

(* dsv4l2_set_framerate(dev, fps_num, fps_den) on a device: G_PARM, S_PARM,   *)
(* then the struct the driver filled in is cached (unless the cache is NULL   *)
(* and its malloc fails).  Nothing is logged.                                 *)
dsv4l2_set_framerate(fps_num, fps_den) ==
    { [rc |-> -EIO, calls |-> << <<"G_PARM_failed", 0>> >>, parm |-> current_parm],
      [rc |-> -EIO, calls |-> << <<"G_PARM", 0>>, <<"S_PARM_failed", 0>> >>,
       parm |-> current_parm] }
    \cup
    { [rc |-> 0, calls |-> << <<"G_PARM", 0>>, <<"S_PARM", 0>> >>, parm |-> q]
        : q \in IF current_parm # NoParm THEN Framerates ELSE Framerates \cup {NoParm} }

SetFramerate ==
    \E dev_null \in BOOLEAN :
        /\ opened
        /\ IF dev_null
           THEN /\ last' = OpNull("set_framerate", -EINVAL)
                /\ ioctls' = <<>>
                /\ UNCHANGED <<current_parm>>
           ELSE \E r \in dsv4l2_set_framerate(30, 1) :
                /\ current_parm' = r.parm
                /\ ioctls' = r.calls
                /\ last' = Op("set_framerate", r.rc, NoRc, tempest_state)
        /\ Logged(<<>>)
        /\ UNCHANGED <<opened, profile, layer, tempest_state, current_format, streaming,
                       num_buffers, buffers, frame, drv_vars, pol_vars>>

(* dsv4l2_set_control(dev, control_id, value) on a device: one S_CTRL. *)
dsv4l2_set_control(control_id, value) ==
    { [rc |-> 0,    calls |-> << <<"S_CTRL", control_id, value>> >>],
      [rc |-> -EIO, calls |-> << <<"S_CTRL_failed", control_id, value>> >>] }

SetControl ==
    \E dev_null \in BOOLEAN :
        /\ opened
        /\ IF dev_null
           THEN /\ last' = OpNull("set_control", -EINVAL)
                /\ ioctls' = <<>>
           ELSE \E id \in 1 .. 2 : \E c \in dsv4l2_set_control(id, 5) :
                /\ ioctls' = c.calls
                /\ last' = Op("set_control", c.rc, NoRc, tempest_state)
        /\ Logged(<<>>)
        /\ UNCHANGED <<dev_vars, drv_vars, pol_vars>>

----------------------------------------------------------------------------
(* TEMPEST control discovery (dsv4l2_tempest.c) and profile application      *)
(* (dsv4l2_profiles.c)                                                        *)

(* A control name is a sequence of characters. *)
UpperCase == <<"A", "B", "C", "D", "E", "F", "G", "H", "I", "J", "K", "L", "M",
               "N", "O", "P", "Q", "R", "S", "T", "U", "V", "W", "X", "Y", "Z">>
LowerCase == <<"a", "b", "c", "d", "e", "f", "g", "h", "i", "j", "k", "l", "m",
               "n", "o", "p", "q", "r", "s", "t", "u", "v", "w", "x", "y", "z">>

tolower(c) ==
    IF \E i \in 1 .. Len(UpperCase) : UpperCase[i] = c
    THEN LowerCase[CHOOSE i \in 1 .. Len(UpperCase) : UpperCase[i] = c]
    ELSE c

lower_name(name) == [i \in 1 .. Len(name) |-> tolower(name[i])]

(* strstr(haystack, needle) != NULL *)
strstr(haystack, needle) ==
    \E i \in 0 .. Len(haystack) - Len(needle) :
        SubSeq(haystack, i + 1, i + Len(needle)) = needle

patterns == <<
    <<"t", "e", "m", "p", "e", "s", "t">>,
    <<"p", "r", "i", "v", "a", "c", "y">>,
    <<"s", "e", "c", "u", "r", "e">>,
    <<"s", "h", "u", "t", "t", "e", "r">>,
    <<"l", "e", "d">>,
    <<"i", "n", "d", "i", "c", "a", "t", "o", "r">>,
    <<"e", "m", "i", "s", "s", "i", "o", "n">>,
    <<"l", "o", "c", "k", "d", "o", "w", "n">> >>

is_tempest_control(name) ==
    \E i \in 1 .. Len(patterns) : strstr(lower_name(name), patterns[i])

(* The control lists a driver may enumerate, in QUERYCTRL/NEXT_CTRL order *)
DriverControls == <<
    << [id |-> 1, name |-> <<"G", "a", "i", "n">>, disabled |-> FALSE],
       [id |-> 2, name |-> <<"P", "r", "i", "v", "a", "c", "y">>, disabled |-> TRUE],
       [id |-> 3, name |-> <<"S", "t", "a", "t", "u", "s", " ", "L", "E", "D">>,
        disabled |-> FALSE],
       [id |-> 4, name |-> <<"S", "h", "u", "t", "t", "e", "r">>, disabled |-> FALSE] >>,
    << [id |-> 1, name |-> <<"G", "a", "i", "n">>, disabled |-> FALSE],
       [id |-> 5, name |-> <<"l", "e", "d">>, disabled |-> TRUE] >>,
    << >> >>

(* dsv4l2_enum_controls with tempest_search_callback, from control i on: the  *)
(* index of the control the callback stopped at, 0 when the list ran out.     *)
RECURSIVE tempest_search(_, _)
tempest_search(ctrls, i) ==
    IF i > Len(ctrls) THEN 0
    ELSE IF ~ctrls[i].disabled /\ is_tempest_control(ctrls[i].name) THEN i
    ELSE tempest_search(ctrls, i + 1)

(* dsv4l2_discover_tempest_control(dev, &id) on a device whose driver         *)
(* enumerates ctrls.                                                          *)
dsv4l2_discover_tempest_control(ctrls) ==
    LET k == tempest_search(ctrls, 1) IN
    IF k # 0
    THEN [rc |-> 0, id |-> ctrls[k].id,
          calls |-> [i \in 1 .. k |-> <<"QUERYCTRL", ctrls[i].id>>]]
    ELSE [rc |-> -ENOENT, id |-> 0,
          calls |-> [i \in 1 .. Len(ctrls) |-> <<"QUERYCTRL", ctrls[i].id>>]
                    \o << <<"QUERYCTRL_failed", 0>> >>]

DiscoverTempestControl ==
    \E dev_null \in BOOLEAN, k \in 1 .. Len(DriverControls) :
        /\ opened
        /\ IF dev_null
           THEN /\ last' = OpNull("discover_tempest_control", -EINVAL)
                /\ ioctls' = <<>>
           ELSE LET d == dsv4l2_discover_tempest_control(DriverControls[k]) IN
                /\ last' = [Op("discover_tempest_control", d.rc, NoRc, tempest_state)
                               EXCEPT !.arg = <<k, d.id>>]
                /\ ioctls' = d.calls
        /\ Logged(<<>>)
        /\ UNCHANGED <<dev_vars, drv_vars, pol_vars>>

(* dsv4l2_apply_tempest_mapping(dev) *)
dsv4l2_apply_tempest_mapping(dev_null) ==
    IF dev_null \/ profile = 0 THEN -EINVAL ELSE 0

ApplyTempestMapping ==
    \E dev_null \in BOOLEAN :
        /\ opened
        /\ last' = [Op("apply_tempest_mapping", dsv4l2_apply_tempest_mapping(dev_null),
                       NoRc, tempest_state) EXCEPT !.null = dev_null]
        /\ ioctls' = <<>>
        /\ Logged(<<>>)
        /\ UNCHANGED <<dev_vars, drv_vars, pol_vars>>

(* The control the device's profile copy names as its TEMPEST control: the    *)
(* only place the device keeps a mapping, 0 when it has none.                 *)
MappedControl ==
    IF profile = 0 THEN 0 ELSE Profiles[profile].tempest_control.control_id

(* The value the device's profile copy gives for the state s on that control *)
TempestValue(s) ==
    LET m == Profiles[profile].tempest_control IN
    CASE s = DSV4L2_TEMPEST_DISABLED -> m.disabled_value
      [] s = DSV4L2_TEMPEST_LOW      -> m.low_value
      [] s = DSV4L2_TEMPEST_HIGH     -> m.high_value
      [] s = DSV4L2_TEMPEST_LOCKDOWN -> m.lockdown_value

(* The profiles a caller may pass to dsv4l2_profile_apply: those above and    *)
(* one that specifies nothing.  Index 0 stands for NULL.                      *)
ApplyProfiles ==
    Profiles \o <<
    [role |-> "camera", classification |-> "UNCLASSIFIED", buffer_count |-> 0,
     pixel_format |-> 0, width |-> 0, height |-> 0, fps_num |-> 0, fps_den |-> 0,
     controls |-> << >>, num_controls |-> 0,
     tempest_control |-> [control_id |-> 0, disabled_value |-> 0, low_value |-> 0,
                          high_value |-> 0, lockdown_value |-> 0, auto_detect |-> FALSE]] >>

(* A step of profile_apply that is not taken *)
Skipped == [rc |-> 0, calls |-> <<>>, fmt |-> current_format, parm |-> current_parm,
            log |-> <<>>]

(* profile_apply, format step *)
apply_format(P) ==
    IF P.pixel_format # 0 /\ P.width # 0 /\ P.height # 0
    THEN dsv4l2_set_format([w |-> P.width, h |-> P.height])
    ELSE {Skipped}

(* Variant: no result of the format step aborts the call *)
format_aborts_never(rc) == FALSE

(* profile_apply: the format step's result aborts the call *)
format_aborts(rc) == rc # 0 /\ rc # -ENOSYS

(* profile_apply, framerate step *)
apply_framerate(P) ==
    IF P.fps_num > 0
    THEN dsv4l2_set_framerate(P.fps_num, IF P.fps_den > 0 THEN P.fps_den ELSE 1)
    ELSE {Skipped}

(* profile_apply, control presets from preset i on: the call sequences the    *)
(* loop can issue; a failed write does not end it.                            *)
RECURSIVE apply_controls(_, _)
apply_controls(P, i) ==
    IF i > P.num_controls THEN { <<>> }
    ELSE { c.calls \o rest :
             c \in dsv4l2_set_control(P.controls[i].id, P.controls[i].value),
             rest \in apply_controls(P, i + 1) }

(* profile_apply, TEMPEST step: with an explicit control id the mapping is    *)
(* applied, with auto_detect the control is searched for and, when one is     *)
(* found, the state set to DISABLED.                                          *)
apply_tempest(P) ==
    IF P.tempest_control.control_id # 0
    THEN { [calls |-> <<>>, state |-> tempest_state, log |-> <<>>, k |-> 0] }
    ELSE IF P.tempest_control.auto_detect
    THEN { LET d == dsv4l2_discover_tempest_control(DriverControls[k]) IN
           IF d.rc = 0
           THEN [calls |-> d.calls, state |-> DSV4L2_TEMPEST_DISABLED,
                 log |-> << dsv4l2rt_log_tempest_transition(
                                tempest_state, DSV4L2_TEMPEST_DISABLED) >>,
                 k |-> k]
           ELSE [calls |-> d.calls, state |-> tempest_state, log |-> <<>>, k |-> k]
           : k \in 1 .. Len(DriverControls) }
    ELSE { [calls |-> <<>>, state |-> tempest_state, log |-> <<>>, k |-> 0] }

(* dsv4l2_profile_apply(dev, profile); t is what the TEMPEST step does when   *)
(* the call gets to it.                                                       *)
ProfileApply ==
    \E dev_null \in BOOLEAN, p \in 0 .. Len(ApplyProfiles) :
        /\ opened
        /\ IF dev_null \/ p = 0
           THEN /\ last' = [OpNull("profile_apply", -EINVAL) EXCEPT !.arg = <<p, 0>>]
                /\ ioctls' = <<>>
                /\ Logged(<<>>)
                /\ UNCHANGED <<tempest_state, current_format, current_parm>>
           ELSE LET P == ApplyProfiles[p] IN
                \E t \in apply_tempest(P) : \E f \in apply_format(P) :
                   IF format_aborts(f.rc)
                   THEN /\ last' = [Op("profile_apply", f.rc, NoRc, tempest_state)
                                       EXCEPT !.arg = <<p, 0>>]
                        /\ ioctls' = f.calls
                        /\ Logged(f.log)
                        /\ current_format' = f.fmt
                        /\ UNCHANGED <<tempest_state, current_parm>>
                   ELSE \E r \in apply_framerate(P), c \in apply_controls(P, 1) :
                        LET calls == f.calls \o r.calls \o c \o t.calls IN
                        /\ last' = [Op("profile_apply", 0, NoRc, tempest_state)
                                       EXCEPT !.arg = <<p, t.k>>]
                        /\ ioctls' = calls
                        /\ Logged(f.log \o [i \in 1 .. Len(t.log) |-> At(t.log[i], Len(calls))])
                        /\ current_format' = f.fmt
                        /\ current_parm' = r.parm
                        /\ tempest_state' = t.state
        /\ UNCHANGED <<opened, profile, layer, streaming, num_buffers, buffers, frame,
                       drv_vars, pol_vars>>

----------------------------------------------------------------------------
(* Process-wide policy state (policy module) and the public layer tag *)

ThreatconLevels == <<"NORMAL", "ALPHA", "BRAVO", "CHARLIE", "DELTA", "EMERGENCY">>

ThreatconRank(t) == CHOOSE i \in 1 .. Len(ThreatconLevels) : ThreatconLevels[i] = t

Clearances == {"UNCLASSIFIED", "SECRET"}

Layers == {0, 3, 7}

SetThreatcon ==
    \E t \in 1 .. Len(ThreatconLevels) :
        /\ threatcon' = ThreatconLevels[t]
        /\ threatcon' # threatcon
        /\ ioctls' = <<>>
        /\ last' = Op("set_threatcon", 0, NoRc, tempest_state)
        /\ Logged(<<>>)
        /\ UNCHANGED <<dev_vars, drv_vars, clearance>>

SetClearance ==
    \E c \in Clearances :
        /\ clearance' = c
        /\ clearance' # clearance
        /\ ioctls' = <<>>
        /\ last' = Op("set_clearance", 0, NoRc, tempest_state)
        /\ Logged(<<>>)
        /\ UNCHANGED <<dev_vars, drv_vars, threatcon>>

(* The caller writes the public field dev->layer. *)
AssignLayer ==
    \E l \in Layers :
        /\ opened
        /\ layer' = l
        /\ layer' # layer
        /\ ioctls' = <<>>
        /\ last' = Op("assign_layer", 0, NoRc, tempest_state)
        /\ Logged(<<>>)
        /\ UNCHANGED <<opened, profile, tempest_state, current_format, current_parm, streaming,
                       num_buffers, buffers, frame, drv_vars, pol_vars>>

(* The layer policy table, as far as the integration tests pin it down:       *)
(* layer 3 caps the resolution at 1280x720, layer 7 requires TEMPEST HIGH.    *)
LayerMaxWidth == 3 :> 1280

LayerMaxHeight == 3 :> 720

LayerMinTempest == 7 :> DSV4L2_TEMPEST_HIGH

(* The roles the policy treats as biometric *)
IsBiometricRole(role) == role = "iris_scanner"

(* The clearance c dominates the classification cls. *)
Dominates(c, cls) ==
    \/ cls = "UNCLASSIFIED"
    \/ c = "SECRET" /\ cls \in {"SECRET", "SECRET_BIOMETRIC"}

(* dsv4l2_check_clearance(role, classification) under the clearance c *)
check_clearance(c, role, classification) ==
    IF Dominates(c, classification) THEN 0 ELSE -EPERM

----------------------------------------------------------------------------
(* Profile loading (dsv4l2_profiles.c) *)

(* A YAML scalar, a key, a path component: a sequence of characters.  libyaml  *)
(* hands the loader a document as a sequence of events.                       *)
Scalar(value) == [type |-> "SCALAR", value |-> value]
YamlEvent(type) == [type |-> type, value |-> <<>>]

(* The value of the digit c, 16 when c is no digit *)
digit(c) ==
    LET Digits == <<"0", "1", "2", "3", "4", "5", "6", "7", "8", "9",
                    "a", "b", "c", "d", "e", "f">>
    IN  IF \E i \in 1 .. Len(Digits) : Digits[i] = tolower(c)
        THEN (CHOOSE i \in 1 .. Len(Digits) : Digits[i] = tolower(c)) - 1
        ELSE Len(Digits)

(* The number the digits of `value` from position i on spell in `base`, up to *)
(* the first character that is no digit of the base.                          *)
RECURSIVE strtol(_, _, _, _)
strtol(value, i, base, acc) ==
    IF i > Len(value) \/ digit(value[i]) >= base THEN acc
    ELSE strtol(value, i + 1, base, acc * base + digit(value[i]))

atoi(value) ==
    IF value # <<>> /\ value[1] = "-" THEN 0 - strtol(value, 2, 10, 0)
    ELSE strtol(value, 1, 10, 0)

(* strtoul(value, NULL, 0): the base is taken from the prefix *)
strtoul(value) ==
    IF Len(value) >= 2 /\ value[1] = "0" /\ tolower(value[2]) = "x"
    THEN strtol(value, 3, 16, 0)
    ELSE IF value # <<>> /\ value[1] = "0" THEN strtol(value, 1, 8, 0)
    ELSE strtol(value, 1, 10, 0)

(* strncpy(dst, value, n) into a zeroed dst: the first n characters *)
strncpy(value, n) == SubSeq(value, 1, IF Len(value) < n THEN Len(value) ELSE n)

(* ord: the character code of an upper-case letter or a digit *)
fourcc_to_u32(fourcc) ==
    LET ord(c) == IF \E i \in 1 .. Len(UpperCase) : UpperCase[i] = c
                  THEN 64 + (CHOOSE i \in 1 .. Len(UpperCase) : UpperCase[i] = c)
                  ELSE IF digit(c) < 10 THEN 48 + digit(c)
                  ELSE 63
    IN  IF Len(fourcc) # 4 THEN 0
        ELSE ord(fourcc[1]) + ord(fourcc[2]) * 256 + ord(fourcc[3]) * 65536
             + ord(fourcc[4]) * 16777216

(* The keys the loader knows *)
Keys ==
    [id |-> <<"i", "d">>,
     role |-> <<"r", "o", "l", "e">>,
     device_hint |-> <<"d", "e", "v", "i", "c", "e", "_", "h", "i", "n", "t">>,
     classification |-> <<"c", "l", "a", "s", "s", "i", "f", "i", "c", "a", "t", "i", "o", "n">>,
     pixel_format |-> <<"p", "i", "x", "e", "l", "_", "f", "o", "r", "m", "a", "t">>,
     fps |-> <<"f", "p", "s">>,
     meta_device |-> <<"m", "e", "t", "a", "_", "d", "e", "v", "i", "c", "e">>,
     buffer_count |-> <<"b", "u", "f", "f", "e", "r", "_", "c", "o", "u", "n", "t">>,
     constant_time_required |-> <<"c", "o", "n", "s", "t", "a", "n", "t", "_", "t", "i", "m", "e", "_", "r", "e", "q", "u", "i", "r", "e", "d">>,
     quantum_candidate |-> <<"q", "u", "a", "n", "t", "u", "m", "_", "c", "a", "n", "d", "i", "d", "a", "t", "e">>,
     auto_detect |-> <<"a", "u", "t", "o", "_", "d", "e", "t", "e", "c", "t">>,
     DISABLED |-> <<"D", "I", "S", "A", "B", "L", "E", "D">>,
     LOW |-> <<"L", "O", "W">>,
     HIGH |-> <<"H", "I", "G", "H">>,
     LOCKDOWN |-> <<"L", "O", "C", "K", "D", "O", "W", "N">>,
     resolution |-> <<"r", "e", "s", "o", "l", "u", "t", "i", "o", "n">>,
     controls |-> <<"c", "o", "n", "t", "r", "o", "l", "s">>,
     tempest_control |-> <<"t", "e", "m", "p", "e", "s", "t", "_", "c", "o", "n", "t", "r", "o", "l">>,
     mode_map |-> <<"m", "o", "d", "e", "_", "m", "a", "p">>]
V_true == <<"t", "r", "u", "e">>

(* No profile was handed out *)
NoProfile == [loaded |-> FALSE]

(* The profile as calloc and the defaults leave it *)
NewProfile ==
    [id |-> <<>>, role |-> <<>>, device_hint |-> <<>>, classification |-> <<>>,
     pixel_format |-> 0, width |-> 0, height |-> 0, fps_num |-> 0, fps_den |-> 0,
     num_controls |-> 0,
     tempest_control |-> [control_id |-> 0, disabled_value |-> 0, low_value |-> 0,
                          high_value |-> 0, lockdown_value |-> 0, auto_detect |-> FALSE],
     meta_device_path |-> <<>>, buffer_count |-> DefaultBufferCount,
     constant_time_required |-> FALSE, quantum_candidate |-> FALSE]

(* The loader's locals at the top of its loop *)
NewLoader ==
    [profile |-> NewProfile, current_key |-> <<>>, context |-> <<>>,
     in_controls |-> FALSE, in_tempest |-> FALSE, in_mode_map |-> FALSE, done |-> FALSE]

(* A scalar that arrives as the value of current_key: the top-level keys *)
profile_value(P, key, value) ==
    IF key = Keys.id THEN [P EXCEPT !.id = strncpy(value, 63)]
    ELSE IF key = Keys.role THEN [P EXCEPT !.role = strncpy(value, 31)]
    ELSE IF key = Keys.device_hint THEN [P EXCEPT !.device_hint = strncpy(value, 255)]
    ELSE IF key = Keys.classification THEN [P EXCEPT !.classification = strncpy(value, 63)]
    ELSE IF key = Keys.pixel_format THEN [P EXCEPT !.pixel_format = fourcc_to_u32(value)]
    ELSE IF key = Keys.fps THEN [P EXCEPT !.fps_num = atoi(value), !.fps_den = 1]
    ELSE IF key = Keys.meta_device THEN [P EXCEPT !.meta_device_path = strncpy(value, 255)]
    ELSE IF key = Keys.buffer_count THEN [P EXCEPT !.buffer_count = atoi(value)]
    ELSE IF key = Keys.constant_time_required
    THEN [P EXCEPT !.constant_time_required = (value = V_true)]
    ELSE IF key = Keys.quantum_candidate
    THEN [P EXCEPT !.quantum_candidate = (value = V_true)]
    ELSE P

(* ... and the keys of the tempest_control mapping *)
tempest_value(P, key, value, in_mode_map) ==
    IF key = Keys.id THEN [P EXCEPT !.tempest_control.control_id = strtoul(value)]
    ELSE IF key = Keys.auto_detect
    THEN [P EXCEPT !.tempest_control.auto_detect = (value = V_true)]
    ELSE IF ~in_mode_map THEN P
    ELSE IF key = Keys.DISABLED THEN [P EXCEPT !.tempest_control.disabled_value = atoi(value)]
    ELSE IF key = Keys.LOW THEN [P EXCEPT !.tempest_control.low_value = atoi(value)]
    ELSE IF key = Keys.HIGH THEN [P EXCEPT !.tempest_control.high_value = atoi(value)]
    ELSE IF key = Keys.LOCKDOWN
    THEN [P EXCEPT !.tempest_control.lockdown_value = atoi(value)]
    ELSE P

(* One turn of the loader's loop: the switch on the event's type *)
yaml_event(L, event) ==
    IF event.type = "SCALAR"
    THEN IF L.current_key = <<>>
         THEN [L EXCEPT !.current_key = strncpy(event.value, 63)]
         ELSE LET P1 == profile_value(L.profile, L.current_key, event.value)
                  P2 == IF L.in_tempest
                        THEN tempest_value(P1, L.current_key, event.value, L.in_mode_map)
                        ELSE P1
              IN  [L EXCEPT !.profile = P2, !.current_key = <<>>]
    ELSE IF event.type = "SEQUENCE_START"
    THEN IF L.current_key = Keys.resolution THEN [L EXCEPT !.context = Keys.resolution] ELSE L
    ELSE IF event.type = "MAPPING_START"
    THEN [L EXCEPT !.in_controls = IF L.current_key = Keys.controls THEN TRUE ELSE @,
                   !.in_tempest  = IF L.current_key = Keys.tempest_control THEN TRUE ELSE @,
                   !.in_mode_map = IF L.current_key = Keys.mode_map THEN TRUE ELSE @,
                   !.current_key = <<>>]
    ELSE IF event.type = "MAPPING_END"
    THEN IF L.in_mode_map THEN [L EXCEPT !.in_mode_map = FALSE]
         ELSE IF L.in_tempest THEN [L EXCEPT !.in_tempest = FALSE]
         ELSE IF L.in_controls THEN [L EXCEPT !.in_controls = FALSE]
         ELSE L
    ELSE IF event.type = "STREAM_END" THEN [L EXCEPT !.done = TRUE]
    ELSE L

(* The loop over the events of the document, from event i on: the profile     *)
(* when the stream ends, -EINVAL when the parser reports an error.            *)
RECURSIVE load_events(_, _, _)
load_events(L, events, i) ==
    IF L.done THEN [rc |-> 0, profile |-> L.profile]
    ELSE IF i > Len(events) \/ events[i].type = "ERROR"
    THEN [rc |-> -EINVAL, profile |-> NoProfile]
    ELSE load_events(yaml_event(L, events[i]), events, i + 1)

(* fopen(filepath) fails when the directory holds no such file *)
NoFile == <<>>

dsv4l2_profile_load_from_file(files, filepath_null, filepath, out_null) ==
    IF filepath_null \/ out_null THEN [rc |-> -EINVAL, profile |-> NoProfile]
    ELSE IF filepath \notin DOMAIN files \/ files[filepath] = NoFile
    THEN [rc |-> -ENOENT, profile |-> NoProfile]
    ELSE load_events(NewLoader, files[filepath], 1)

(* snprintf(filepath, "%s/%s.yaml", profile_dir, role) *)
profile_dir == <<"d", "s", "v", "4", "l", "2", "/", "p", "r", "o", "f", "i", "l", "e", "s">>
ProfilePath(dir, role) == dir \o <<"/">> \o role \o <<".", "y", "a", "m", "l">>

dsv4l2_profile_load(files, device_path_null, role_null, role, out_null) ==
    IF device_path_null \/ role_null \/ out_null THEN [rc |-> -EINVAL, profile |-> NoProfile]
    ELSE dsv4l2_profile_load_from_file(files, FALSE, ProfilePath(profile_dir, role),
                                       out_null)

(* dsv4l2_profile_load_by_vidpid: the load by role is called with a NULL       *)
(* device path.                                                               *)
dsv4l2_profile_load_by_vidpid(files, vendor_id, product_id, role_null, role, out_null) ==
    IF role_null \/ out_null THEN [rc |-> -EINVAL, profile |-> NoProfile]
    ELSE dsv4l2_profile_load(files, TRUE, role_null, role, out_null)

(* The roles a caller asks a profile for; the last has no file *)
LoadRoles == <<<<"i", "r", "i", "s", "_", "s", "c", "a", "n", "n", "e", "r">>, <<"g", "e", "n", "e", "r", "i", "c", "_", "w", "e", "b", "c", "a", "m">>, <<"n", "o", "n", "e", "x", "i", "s", "t", "e", "n", "t">>>>

(* Documents: the entries of the top-level mapping, as libyaml reports them *)
Entry(key, value) == <<Scalar(key), Scalar(value)>>
EntryResolution(W, H) ==
    <<Scalar(Keys.resolution), YamlEvent("SEQUENCE_START"), Scalar(W), Scalar(H),
      YamlEvent("SEQUENCE_END")>>
EntryTempest ==
    <<Scalar(Keys.tempest_control), YamlEvent("MAPPING_START"),
      Scalar(Keys.id), Scalar(<<"9">>), Scalar(Keys.auto_detect), Scalar(V_true),
      YamlEvent("MAPPING_END")>>

Document(entries) ==
    <<YamlEvent("STREAM_START"), YamlEvent("DOCUMENT_START"), YamlEvent("MAPPING_START")>>
    \o entries
    \o <<YamlEvent("MAPPING_END"), YamlEvent("DOCUMENT_END"), YamlEvent("STREAM_END")>>

(* The documents {role}.yaml may hold: role, resolution and fps in any order,  *)
(* with or without a tempest_control mapping after them; one without a         *)
(* resolution, with or without a tempest_control mapping before its last key; *)
(* one libyaml rejects.                                                       *)
Documents ==
    { LET E == <<Entry(Keys.role, LoadRoles[1]),
                 EntryResolution(r[1], r[2]),
                 Entry(Keys.fps, <<"3", "0">>)>>
      IN  Document(E[p[1]] \o E[p[2]] \o E[p[3]] \o t) :
          p \in {q \in [1 .. 3 -> 1 .. 3] : \A i, j \in 1 .. 3 : q[i] = q[j] => i = j},
          r \in { << <<"6", "4", "0">>, <<"4", "8", "0">> >>,
                  << <<"1", "9", "2", "0">>, <<"1", "0", "8", "0">> >> },
          t \in {<<>>, EntryTempest} }
    \cup { Document(Entry(Keys.role, LoadRoles[1]) \o t \o Entry(Keys.fps, <<"3", "0">>)) :
                t \in {<<>>, EntryTempest} }
    \cup { <<YamlEvent("STREAM_START"), YamlEvent("ERROR")>> }

Paths == {ProfilePath(profile_dir, LoadRoles[i]) : i \in 1 .. 2}

(* An empty profile directory *)
NoFiles == <<>>

(* dsv4l2_profile_load_from_file(filepath, out_profile) *)
ProfileLoadFromFile ==
    \E filepath_null \in BOOLEAN, out_null \in BOOLEAN, i \in 1 .. Len(LoadRoles) :
        LET filepath == ProfilePath(profile_dir, LoadRoles[i])
            r == dsv4l2_profile_load_from_file(profile_files, filepath_null, filepath,
                                               out_null)
        IN  /\ out_profile' = IF r.rc = 0 THEN r.profile ELSE out_profile
            /\ last' = [Op("profile_load_from_file", r.rc, NoRc, tempest_state)
                           EXCEPT !.null = filepath_null \/ out_null, !.arg = <<filepath>>]
            /\ UNCHANGED <<core_vars, profile_files, meta_vars, rt_vars>>

(* dsv4l2_profile_load(device_path, role, out_profile) *)
ProfileLoad ==
    \E device_path_null \in BOOLEAN, role_null \in BOOLEAN, out_null \in BOOLEAN,
       i \in 1 .. Len(LoadRoles) :
        LET r == dsv4l2_profile_load(profile_files, device_path_null, role_null,
                                     LoadRoles[i], out_null)
        IN  /\ out_profile' = IF r.rc = 0 THEN r.profile ELSE out_profile
            /\ last' = [Op("profile_load", r.rc, NoRc, tempest_state)
                           EXCEPT !.null = device_path_null \/ role_null \/ out_null,
                                  !.arg = <<LoadRoles[i]>>]
            /\ UNCHANGED <<core_vars, profile_files, meta_vars, rt_vars>>

(* dsv4l2_profile_load_by_vidpid(vendor_id, product_id, role, out_profile) *)
ProfileLoadByVidpid ==
    \E vendor_id \in {0, 1133}, product_id \in {0, 1133}, role_null \in BOOLEAN,
       out_null \in BOOLEAN, i \in 1 .. Len(LoadRoles) :
        LET r == dsv4l2_profile_load_by_vidpid(profile_files, vendor_id, product_id,
                                               role_null, LoadRoles[i], out_null)
        IN  /\ out_profile' = IF r.rc = 0 THEN r.profile ELSE out_profile
            /\ last' = [Op("profile_load_by_vidpid", r.rc, NoRc, tempest_state)
                           EXCEPT !.null = role_null \/ out_null,
                                  !.arg = <<LoadRoles[i], vendor_id, product_id>>]
            /\ UNCHANGED <<core_vars, profile_files, meta_vars, rt_vars>>

----------------------------------------------------------------------------
(* Metadata: KLV parser and timestamp synchronisation *)

KeyLen         == 1    \* bytes of a key (16 for a universal label)
MaxKlvLen      == 4    \* longest buffer handed to the parser
MaxMetaBuffers == 3    \* most metadata buffers handed to sync_metadata
SizeofSizeT    == 8

(* Byte values: small lengths, the long forms 0x81 and 0x82, and 0xFF *)
Bytes == {0, 1, 2, 129, 130, 255}

SeqsUpTo(S, n) == UNION {[1 .. k -> S] : k \in 0 .. n}

NoMeta == [rc |-> "ok", items |-> <<>>, reads |-> {}, found |-> 0, index |-> -1]

(* The BER length whose first byte is at offset `at` (offsets count from 0):   *)
(* the length, the bytes it took and the offsets read; ok is FALSE when the   *)
(* byte count is more than a size_t holds or the bytes are not there.         *)
RECURSIVE big_endian(_, _, _, _)
big_endian(buf, at, n, acc) ==
    IF n = 0 THEN acc ELSE big_endian(buf, at + 1, n - 1, acc * 256 + buf[at + 1])

ber_length(buf, at) ==
    LET first == buf[at + 1]
        n     == first - 128
    IN  IF first < 128
        THEN [ok |-> TRUE, length |-> first, took |-> 1, reads |-> {at}]
        ELSE IF n > SizeofSizeT \/ n > Len(buf) - (at + 1)
        THEN [ok |-> FALSE, length |-> 0, took |-> 1, reads |-> {at}]
        ELSE [ok |-> TRUE, length |-> big_endian(buf, at + 1, n, 0), took |-> 1 + n,
              reads |-> at .. at + n]

(* Variant: the declared length is not compared with what is left *)
klv_fits_always(length, remaining) == TRUE

(* The value of an item fits in the bytes after its length *)
klv_fits(length, remaining) == length <= remaining

(* dsv4l2_parse_klv from offset `at` on: items alias the buffer, an item's     *)
(* value is the slice [value, value + length).                                *)
RECURSIVE parse_klv(_, _, _, _)
parse_klv(buf, at, items, reads) ==
    IF at >= Len(buf) THEN [NoMeta EXCEPT !.items = items, !.reads = reads]
    ELSE IF Len(buf) - at < KeyLen + 1
    THEN [NoMeta EXCEPT !.rc = "parse_error", !.reads = reads]
    ELSE LET len == ber_length(buf, at + KeyLen)
             value == at + KeyLen + len.took
             seen == reads \cup (at .. at + KeyLen - 1) \cup len.reads
         IN  IF ~len.ok \/ ~klv_fits(len.length, Len(buf) - value)
             THEN [NoMeta EXCEPT !.rc = "parse_error", !.reads = seen]
             ELSE parse_klv(buf, value + len.length,
                            Append(items, [key |-> SubSeq(buf, at + 1, at + KeyLen),
                                           at |-> at, length |-> len.length,
                                           value |-> value]),
                            seen)

dsv4l2_parse_klv(buf) == parse_klv(buf, 0, <<>>, {})

(* dsv4l2_find_klv_item: the index of the first item whose key is byte-equal   *)
(* to key, 0 (NULL) when there is none.                                       *)
dsv4l2_find_klv_item(items, key) ==
    IF \E i \in 1 .. Len(items) : items[i].key = key
    THEN CHOOSE i \in 1 .. Len(items) :
             /\ items[i].key = key
             /\ \A j \in 1 .. i - 1 : items[j].key # key
    ELSE 0

Distance(a, b) == IF a < b THEN b - a ELSE a - b

(* Variant: a buffer as near as the best so far replaces it *)
sync_nearer_or_equal(diff, best) == diff <= best

(* A buffer replaces the best so far when it is strictly nearer *)
sync_nearer(diff, best) == diff < best

(* dsv4l2_sync_metadata over buffers i .. n, the best so far being `best`     *)
(* (an index from 0, -1 for none).                                            *)
RECURSIVE sync_search(_, _, _, _)
sync_search(target_ns, metas, i, best) ==
    IF i > Len(metas) THEN best
    ELSE IF best = -1
            \/ sync_nearer(Distance(metas[i], target_ns),
                           Distance(metas[best + 1], target_ns))
    THEN sync_search(target_ns, metas, i + 1, i - 1)
    ELSE sync_search(target_ns, metas, i + 1, best)

dsv4l2_sync_metadata(target_ns, metas) == sync_search(target_ns, metas, 1, -1)

ParseKlv ==
    /\ meta' = dsv4l2_parse_klv(klv_buffer)
    /\ last' = Op("parse_klv", 0, NoRc, tempest_state)
    /\ UNCHANGED <<core_vars, load_vars, klv_buffer, meta_buffers, rt_vars>>

FindKlvItem ==
    \E key \in [1 .. KeyLen -> Bytes] :
        /\ last.op \in {"parse_klv", "find_klv_item"}
        /\ meta.rc = "ok"
        /\ meta' = [meta EXCEPT !.found = dsv4l2_find_klv_item(meta.items, key)]
        /\ last' = [Op("find_klv_item", 0, NoRc, tempest_state) EXCEPT !.arg = <<key>>]
        /\ UNCHANGED <<core_vars, load_vars, klv_buffer, meta_buffers, rt_vars>>

SyncMetadata ==
    \E target_ns \in {900000000, 1000000000, 1050000000, 1150000000, 1300000000} :
        /\ meta' = [NoMeta EXCEPT !.index = dsv4l2_sync_metadata(target_ns, meta_buffers)]
        /\ last' = [Op("sync_metadata", 0, NoRc, tempest_state) EXCEPT !.arg = <<target_ns>>]
        /\ UNCHANGED <<core_vars, load_vars, klv_buffer, meta_buffers, rt_vars>>

----------------------------------------------------------------------------
(* Runtime event ring *)

MaxEmits        == 3       \* events each thread emits
SmallCapacity   == 2       \* a configured capacity small enough to overflow
DefaultCapacity == 4096    \* the capacity a zeroed config asks for

(* The emitting threads; thread t drives the device with token t *)
Threads == 1 .. 2

NoRing ==
    [initialized |-> FALSE, config |-> 0, ring |-> <<>>, events_emitted |-> 0,
     events_dropped |-> 0, buffer_capacity |-> 0, mutex |-> 0, sink |-> <<>>]

(* No thread emits before the runtime is initialized *)
NoEmitters == <<>>

(* dsv4l2rt_init(config): a zero capacity asks for the default. The emitting  *)
(* threads start once it returns. pc: where the thread is in                  *)
(* dsv4l2rt_emit_simple; seen: the ring and the counters as it read them;     *)
(* sent: the events it has stored.                                            *)
RtInit ==
    \E capacity \in {0, SmallCapacity} :
        /\ ~rt.initialized
        /\ rt' = [NoRing EXCEPT !.initialized = TRUE, !.config = capacity,
                                !.buffer_capacity = IF capacity = 0 THEN DefaultCapacity
                                                    ELSE capacity]
        /\ emitters' = [t \in Threads |-> [pc |-> "idle", seen |-> NoRing, sent |-> 0]]
        /\ last' = [Op("rt_init", 0, NoRc, tempest_state) EXCEPT !.arg = <<capacity>>]
        /\ UNCHANGED <<core_vars, load_vars, meta_vars, rt_history>>

(* Variant: the ring is entered whoever holds the lock *)
mutex_free_always(mutex) == TRUE

(* The ring's lock can be taken *)
mutex_free(mutex) == mutex = 0

(* Variant: a full ring refuses the new event *)
ring_push_drop_newest(ring, capacity, event) ==
    IF Len(ring) >= capacity THEN ring ELSE Append(ring, event)

(* Overflow policy: a full ring drops its oldest event *)
ring_push(ring, capacity, event) ==
    IF Len(ring) >= capacity THEN Append(Tail(ring), event) ELSE Append(ring, event)

(* dsv4l2rt_emit_simple(token, category, severity, aux) on thread t, a step at *)
(* a time: take the lock, read the ring, store the event and the counters,    *)
(* release the lock.                                                          *)
Emit ==
    \E t \in Threads :
        LET me == emitters[t]
            event == [token |-> t, seq |-> me.sent + 1]
        IN  /\ rt.initialized
            /\ \/ /\ me.pc = "idle" /\ me.sent < MaxEmits
                  /\ mutex_free(rt.mutex)
                  /\ rt' = [rt EXCEPT !.mutex = t]
                  /\ emitters' = [emitters EXCEPT ![t].pc = "locked"]
                  /\ UNCHANGED rt_history
               \/ /\ me.pc = "locked"
                  /\ emitters' = [emitters EXCEPT ![t].pc = "loaded",
                                                  ![t].seen = [rt EXCEPT !.mutex = 0]]
                  /\ UNCHANGED <<rt, rt_history>>
               \/ /\ me.pc = "loaded"
                  /\ rt' = [rt EXCEPT
                               !.ring = ring_push(me.seen.ring, rt.buffer_capacity, event),
                               !.events_emitted = me.seen.events_emitted + 1,
                               !.events_dropped =
                                   me.seen.events_dropped
                                   + IF Len(me.seen.ring) >= rt.buffer_capacity THEN 1 ELSE 0]
                  /\ emitters' = [emitters EXCEPT ![t].pc = "stored", ![t].seen = NoRing,
                                                  ![t].sent = me.sent + 1]
                  /\ rt_history' = Append(rt_history, event)
               \/ /\ me.pc = "stored"
                  /\ rt' = [rt EXCEPT !.mutex = 0]
                  /\ emitters' = [emitters EXCEPT ![t].pc = "idle"]
                  /\ UNCHANGED rt_history
            /\ last' = [Op("rt_emit_simple", 0, NoRc, tempest_state) EXCEPT !.arg = <<t>>]
            /\ UNCHANGED <<core_vars, load_vars, meta_vars>>

(* dsv4l2rt_flush: under the lock, the ring is drained to the sink, oldest     *)
(* first.                                                                     *)
RtFlush ==
    /\ rt.initialized
    /\ mutex_free(rt.mutex)
    /\ rt.ring # <<>>
    /\ rt' = [rt EXCEPT !.sink = rt.sink \o rt.ring, !.ring = <<>>]
    /\ last' = Op("rt_flush", 0, NoRc, tempest_state)
    /\ UNCHANGED <<core_vars, load_vars, meta_vars, emitters, rt_history>>

----------------------------------------------------------------------------
(* Initial state *)

InitCore ==
    /\ opened = FALSE
    /\ profile = 0
    /\ layer = 0
    /\ tempest_state = DSV4L2_TEMPEST_DISABLED
    /\ current_format = NoFormat
    /\ current_parm = NoParm
    /\ streaming = FALSE
    /\ num_buffers = 0
    /\ buffers = <<>>
    /\ drv_in = <<>>
    /\ drv_done = <<>>
    /\ frame = NoFrame
    /\ threatcon = "NORMAL"
    /\ clearance = "UNCLASSIFIED"
    /\ emitted = <<>>
    /\ gate_log = NoGate
    /\ ioctls = <<>>
    /\ last = Op("init", 0, NoRc, DSV4L2_TEMPEST_DISABLED)

(* Nothing loaded, parsed or emitted yet *)
InitLoad == profile_files = NoFiles /\ out_profile = NoProfile
InitMeta == klv_buffer = <<>> /\ meta_buffers = <<>> /\ meta = NoMeta
InitRt   == rt = NoRing /\ emitters = NoEmitters /\ rt_history = <<>>

Init == InitCore /\ InitLoad /\ InitMeta /\ InitRt

(* The observer of the policy gate: it notes the inputs and the result of the *)
(* gate invocation the step made, if it made one, and whether the inputs are *)
(* those of the invocation before it.                                         *)
GateObserved ==
    IF last'.gate # NoRc
    THEN gate_log' = [in    |-> GateInputs(last'.null, last'.state),
                      rc    |-> last'.gate[1],
                      same  |-> gate_log.in = GateInputs(last'.null, last'.state)]
    ELSE UNCHANGED gate_log

Unobserved(A) == A /\ UNCHANGED gate_log /\ UNCHANGED <<load_vars, meta_vars, rt_vars>>
Observed(A)   == A /\ GateObserved /\ UNCHANGED <<load_vars, meta_vars, rt_vars>>

(* The device core driven by one caller *)
Next ==
    \/ Unobserved(OpenDevice)
    \/ Unobserved(CloseDevice)
    \/ Unobserved(GetTempestState)
    \/ Unobserved(SetTempestState)
    \/ Unobserved(PolicyCheckCapture)
    \/ Unobserved(CaptureFrame)
    \/ Unobserved(CaptureIris)
    \/ Unobserved(StartStream)
    \/ Unobserved(StopStream)
    \/ Unobserved(DriverFill)
    \/ Unobserved(SetFormat)

Spec == Init /\ [][Next]_vars

(* The capture path, with the observer noting every gate invocation *)
NextGate ==
    \/ Observed(OpenDevice)
    \/ Observed(SetTempestState)
    \/ Observed(PolicyCheckCapture)
    \/ Observed(CaptureFrame)
    \/ Observed(CaptureIris)
    \/ Observed(StartStream)
    \/ Observed(StopStream)
    \/ Observed(DriverFill)

SpecGate == Init /\ [][NextGate]_vars

(* The device under a changing process-wide policy state *)
NextPolicy ==
    \/ Unobserved(OpenDevice)
    \/ Unobserved(AssignLayer)
    \/ Unobserved(SetThreatcon)
    \/ Unobserved(SetClearance)
    \/ Unobserved(SetTempestState)
    \/ Unobserved(SetFormat)
    \/ Unobserved(CaptureFrame)
    \/ Unobserved(CaptureIris)

SpecPolicy == Init /\ [][NextPolicy]_vars

(* Configuration, streaming and close *)
NextClose ==
    \/ Unobserved(OpenDevice)
    \/ Unobserved(SetFormat)
    \/ Unobserved(SetFramerate)
    \/ Unobserved(StartStream)
    \/ Unobserved(StopStream)
    \/ Unobserved(DriverFill)
    \/ Unobserved(CloseDevice)

SpecClose == Init /\ [][NextClose]_vars

(* Configuration: controls, TEMPEST state and mapping, profile application *)
NextConfig ==
    \/ Unobserved(OpenDevice)
    \/ Unobserved(GetTempestState)
    \/ Unobserved(SetTempestState)
    \/ Unobserved(SetFramerate)
    \/ Unobserved(SetControl)
    \/ Unobserved(DiscoverTempestControl)
    \/ Unobserved(ApplyTempestMapping)
    \/ Unobserved(ProfileApply)
    \/ Unobserved(CloseDevice)

SpecConfig == Init /\ [][NextConfig]_vars

(* Profile loading: the directory holds some document for the iris scanner    *)
(* and a plain one for the webcam.                                            *)
InitProfiles ==
    /\ InitCore /\ InitMeta /\ InitRt
    /\ out_profile = NoProfile
    /\ \E d \in Documents \cup {NoFile} :
           profile_files = [path \in Paths |->
                               IF path = ProfilePath(profile_dir, LoadRoles[1]) THEN d
                               ELSE Document(Entry(Keys.role, LoadRoles[2])
                                             \o Entry(Keys.fps, <<"3", "0">>))]

NextLoad ==
    \/ ProfileLoadFromFile
    \/ ProfileLoad
    \/ ProfileLoadByVidpid

SpecLoad == InitProfiles /\ [][NextLoad]_vars

(* Metadata: a KLV buffer from the companion device, or a set of metadata     *)
(* buffers to synchronise with.                                               *)
InitMetadata ==
    /\ InitCore /\ InitLoad /\ InitRt
    /\ meta = NoMeta
    /\ \/ klv_buffer \in SeqsUpTo(Bytes, MaxKlvLen) /\ meta_buffers = <<>>
       \/ klv_buffer = <<>> /\ meta_buffers \in SeqsUpTo({1000000000, 1100000000, 1200000000},
                                                        MaxMetaBuffers)

NextMeta ==
    \/ ParseKlv
    \/ FindKlvItem
    \/ SyncMetadata

SpecMeta == InitMetadata /\ [][NextMeta]_vars

(* The runtime: threads emitting into the ring, and the flush *)
NextRing ==
    \/ RtInit
    \/ Emit
    \/ RtFlush

SpecRing == Init /\ [][NextRing]_vars

----------------------------------------------------------------------------
(* Properties of the capture path                                             *)

Captures == {"capture_frame", "capture_iris"}

(* The latest step was a capture call with valid arguments. *)
CaptureCalled == last.op \in Captures /\ ~last.null

(* The gate of the latest step denied the capture. *)
GateDenied == last.gate = <<-EACCES>> /\ last.rc = -EACCES

(* The positions of the events of category cat in the log of the latest step *)
EventsOf(cat) == {i \in 1 .. Len(emitted) : emitted[i].cat = cat}

(* C1: while the device's TEMPEST state is LOCKDOWN, every capture call       *)
(* (frame or iris, whatever the role, the format or the streaming state)      *)
(* returns -EACCES.                                                           *)
C1_LockdownDeniesCapture ==
    (CaptureCalled /\ tempest_state = DSV4L2_TEMPEST_LOCKDOWN)
        => last.rc = -EACCES

C1_Witness ==
    /\ last.op = "capture_iris"
    /\ ~last.null
    /\ tempest_state = DSV4L2_TEMPEST_LOCKDOWN
    /\ last.rc = -EACCES
    /\ streaming
    /\ drv_done # <<>>
    /\ Role(profile) = "iris_scanner"

(* C2: a capture whose gate returned non-zero returns -EACCES, issues no      *)
(* system call (no DQBUF, no QBUF) and leaves the device's format, buffer     *)
(* ring, streaming flag and TEMPEST state, the caller's frame and the         *)
(* driver's queues as they were.                                              *)
C2_DeniedCaptureTouchesNothing ==
    [][ (last'.op \in Captures /\ last'.gate # NoRc /\ last'.gate[1] # 0)
            => /\ last'.rc = -EACCES
               /\ ioctls' = <<>>
               /\ UNCHANGED <<dev_vars, drv_vars>> ]_vars

C2_Witness ==
    /\ last.op = "capture_frame"
    /\ last.gate = <<-EACCES>>
    /\ last.rc = -EACCES
    /\ ioctls = <<>>
    /\ streaming
    /\ drv_done # <<>>
    /\ drv_in # <<>>
    /\ current_format # NoFormat

(* C3: a capture that returns 0 has logged exactly one policy_check with      *)
(* rc 0, one capture_start and one capture_end, in that order.                *)
C3_SuccessfulCaptureEventOrder ==
    (last.op \in Captures /\ last.rc = 0)
        => /\ Cardinality(EventsOf("policy_check")) = 1
           /\ Cardinality(EventsOf("capture_start")) = 1
           /\ Cardinality(EventsOf("capture_end")) = 1
           /\ \A i \in EventsOf("policy_check") :
                  /\ emitted[i].b = 0
                  /\ \A j \in EventsOf("capture_start") :
                         /\ i < j
                         /\ \A k \in EventsOf("capture_end") : j < k

C3_Witness ==
    /\ last.op = "capture_frame"
    /\ last.rc = 0
    /\ Len(emitted) = 3
    /\ emitted[3].cat = "capture_end"
    /\ frame.data # NULL

(* C4: every capture whose gate returned 0 logs capture_start before it       *)
(* issues any system call and capture_end carrying its return code after      *)
(* the last one, whether the capture succeeds or fails.                       *)
C4_CaptureBracketed ==
    (last.op \in Captures /\ last.gate = <<0>>)
        => /\ \E i \in EventsOf("capture_start") : emitted[i].at = 0
           /\ \E k \in EventsOf("capture_end") :
                  /\ emitted[k].b = last.rc
                  /\ emitted[k].at = Len(ioctls)

(* C5: the THREATCON level tightens the policy: from CHARLIE on a biometric   *)
(* role needs TEMPEST HIGH, from DELTA on every classified device needs       *)
(* TEMPEST HIGH, and under EMERGENCY only an UNCLASSIFIED device at TEMPEST   *)
(* LOW or above may capture; a capture outside these is denied.               *)
C5_ThreatconEscalation ==
    (CaptureCalled /\ profile # 0)
        => LET t   == ThreatconRank(threatcon)
               cls == Classification(profile)
           IN  /\ ( /\ t >= ThreatconRank("CHARLIE")
                    /\ IsBiometricRole(Role(profile))
                    /\ tempest_state < DSV4L2_TEMPEST_HIGH ) => GateDenied
               /\ ( /\ t >= ThreatconRank("DELTA")
                    /\ cls # "UNCLASSIFIED"
                    /\ tempest_state < DSV4L2_TEMPEST_HIGH ) => GateDenied
               /\ ( /\ t = ThreatconRank("EMERGENCY")
                    /\ ~(cls = "UNCLASSIFIED" /\ tempest_state >= DSV4L2_TEMPEST_LOW) )
                      => GateDenied

(* C6: a device assigned to a layer whose policy caps the resolution is       *)
(* denied capture while its format exceeds the cap.                           *)
C6_LayerResolutionCap ==
    ( /\ CaptureCalled
      /\ layer \in DOMAIN LayerMaxWidth
      /\ \/ current_format.w > LayerMaxWidth[layer]
         \/ current_format.h > LayerMaxHeight[layer] )
        => GateDenied

(* C7: a device assigned to a layer whose policy sets a minimum TEMPEST       *)
(* state is denied capture while its state is below that minimum.             *)
C7_LayerTempestFloor ==
    ( /\ CaptureCalled
      /\ layer \in DOMAIN LayerMinTempest
      /\ tempest_state < LayerMinTempest[layer] )
        => GateDenied

(* C8: a capture on a device whose classification the caller's clearance     *)
(* does not dominate is denied.                                              *)
C8_ClearanceRequired ==
    ( /\ CaptureCalled
      /\ profile # 0
      /\ check_clearance(clearance, Role(profile), Classification(profile)) # 0 )
        => GateDenied

(* C9: every invocation of the gate, one that returns an error included,      *)
(* logs exactly one policy_check event carrying the gate's result.            *)
C9_GateLogsEveryInvocation ==
    last.gate # NoRc
        => /\ Cardinality(EventsOf("policy_check")) = 1
           /\ \A i \in EventsOf("policy_check") : emitted[i].b = last.gate[1]

(* C10: the gate is a function of its inputs (role, classification, layer,    *)
(* format, TEMPEST state, THREATCON, clearance): an invocation with the       *)
(* inputs of the one before it returns what that one returned; and a call of  *)
(* the gate changes no device, driver or policy state and issues no system    *)
(* call.                                                                      *)
C10_GatePure ==
    [][ /\ (last'.gate # NoRc /\ gate_log'.same) => gate_log'.rc = gate_log.rc
        /\ last'.op = "policy_check_capture"
               => /\ ioctls' = <<>>
                  /\ UNCHANGED <<dev_vars, drv_vars, pol_vars>>
                  /\ \A i \in 1 .. Len(emitted') : emitted'[i].cat = "policy_check" ]_vars

C10_Witness ==
    /\ last.op = "policy_check_capture"
    /\ ~last.null
    /\ gate_log.same
    /\ gate_log.rc = 0
    /\ streaming
    /\ drv_done # <<>>

----------------------------------------------------------------------------
(* Error reporting *)

(* The operations that are expected to succeed *)
ReportingOps ==
    {"capture_frame", "capture_iris", "start_stream", "stop_stream", "set_format",
     "set_framerate", "set_control"}

(* C11: an operation that was called on valid arguments in a state where it  *)
(* could succeed (its error is not -EINVAL) and returns an error has logged   *)
(* an event that carries that error (the event the runtime would rate WARN    *)
(* or above) before it returned.                                              *)
C11_ErrorsAreLogged ==
    (last.op \in ReportingOps /\ ~last.null /\ last.rc < 0 /\ last.rc # -EINVAL)
        => \E i \in 1 .. Len(emitted) : emitted[i].b = last.rc

----------------------------------------------------------------------------
(* The buffer ring *)

(* C12: whenever the device has a ring, num_buffers is the count REQBUFS      *)
(* returned (the length the ring was allocated with) and every slot holds a   *)
(* mapped base pointer, non-null and distinct from every other slot's.        *)
C12_RingInvariant ==
    buffers # <<>>
        => /\ num_buffers = Len(buffers)
           /\ \A i \in 1 .. num_buffers :
                  /\ buffers[i].start \notin {NULL, MAP_FAILED}
                  /\ \A j \in 1 .. num_buffers : i # j => buffers[i].start # buffers[j].start

----------------------------------------------------------------------------
(* Close *)

(* The place of each release in the order of dsv4l2_close_device *)
CloseRank ==
    [c \in {"STREAMOFF", "STREAMOFF_failed", "munmap", "free_ring", "free_format",
            "free_parm", "close", "free_profile"} |->
        CASE c \in {"STREAMOFF", "STREAMOFF_failed"} -> 1
          [] c = "munmap"       -> 2
          [] c = "free_ring"    -> 3
          [] c = "free_format"  -> 4
          [] c = "free_parm"    -> 5
          [] c = "close"        -> 6
          [] c = "free_profile" -> 7]

(* How often the call sequence t holds the call c *)
Times(t, c) == Cardinality({i \in 1 .. Len(t) : t[i] = c})

(* C13 (as the code has it): close(NULL) does nothing; close(dev) issues one   *)
(* STREAMOFF if the streaming flag is set, then munmap once for every slot    *)
(* whose base is neither NULL nor MAP_FAILED, then frees the ring, the format *)
(* cache, the parameter cache, closes the descriptor and frees the profile    *)
(* copy, each once and only if present, in this order; every munmap comes     *)
(* after the STREAMOFF call has returned, whether it succeeded or failed.     *)
C13_CloseReleasesInOrder ==
    [][ last'.op = "close_device"
          => IF last'.null
             THEN ioctls' = <<>> /\ UNCHANGED <<dev_vars, drv_vars>>
             ELSE LET t == ioctls'
                      off == Times(t, <<"STREAMOFF", 0>>) + Times(t, <<"STREAMOFF_failed", 0>>)
                  IN  /\ \A i \in 1 .. Len(t) : t[i][1] \in DOMAIN CloseRank
                      /\ \A i, j \in 1 .. Len(t) :
                             i < j => CloseRank[t[i][1]] <= CloseRank[t[j][1]]
                      /\ off = IF streaming THEN 1 ELSE 0
                      /\ \A k \in 1 .. MaxBufs + 1 :
                             Times(t, <<"munmap", k>>) =
                                 IF /\ k <= num_buffers
                                    /\ buffers[k].start # NULL
                                    /\ buffers[k].start # MAP_FAILED
                                 THEN 1 ELSE 0
                      /\ Times(t, <<"free_ring", 0>>) = IF buffers # <<>> THEN 1 ELSE 0
                      /\ Times(t, <<"free_format", 0>>) =
                             IF current_format # NoFormat THEN 1 ELSE 0
                      /\ Times(t, <<"free_parm", 0>>) = IF current_parm # NoParm THEN 1 ELSE 0
                      /\ Times(t, <<"close", 0>>) = 1
                      /\ Times(t, <<"free_profile", 0>>) = IF profile # 0 THEN 1 ELSE 0
                      /\ ~opened' ]_vars

C13_Witness ==
    /\ last.op = "close_device"
    /\ ~last.null
    /\ ioctls[1] = <<"STREAMOFF", 0>>
    /\ Times(ioctls, <<"munmap", 1>>) = 1
    /\ Times(ioctls, <<"munmap", 2>>) = 1
    /\ Times(ioctls, <<"free_parm", 0>>) = 1
    /\ Times(ioctls, <<"free_format", 0>>) = 1
    /\ Times(ioctls, <<"free_profile", 0>>) = 1
    /\ ~opened

(* C13 (as stated): no slot is unmapped while the driver is still streaming:  *)
(* close unmaps nothing after a STREAMOFF that failed.                        *)
C13_NoUnmapWhileStreaming ==
    last.op = "close_device"
        => \A i, j \in 1 .. Len(ioctls) :
               (i < j /\ ioctls[i][1] = "STREAMOFF_failed") => ioctls[j][1] # "munmap"

----------------------------------------------------------------------------
(* Streaming *)

(* C14: start_stream on a device that is already streaming returns 0, issues  *)
(* no system call, logs nothing and changes no state of the device or the     *)
(* driver, so a second start_stream leaves what the first one left.           *)
C14_StartStreamIdempotent ==
    [][ (last'.op = "start_stream" /\ ~last'.null /\ streaming)
            => /\ last'.rc = 0
               /\ ioctls' = <<>>
               /\ emitted' = <<>>
               /\ UNCHANGED <<dev_vars, drv_vars, pol_vars>> ]_vars

C14_Witness ==
    /\ last.op = "start_stream"
    /\ ~last.null
    /\ last.rc = 0
    /\ ioctls = <<>>
    /\ streaming
    /\ num_buffers = MaxBufs
    /\ drv_done # <<>>

(* C15: stop_stream on a streaming device issues one STREAMOFF and, when that *)
(* succeeds, returns 0 with the streaming flag false; on a device that is not *)
(* streaming it returns 0, issues no system call and changes no state.  It    *)
(* never touches another field of the device.                                 *)
C15_StopStreamIdempotent ==
    [][ (last'.op = "stop_stream" /\ ~last'.null)
            => /\ UNCHANGED <<opened, profile, layer, tempest_state, current_format,
                              current_parm, num_buffers, buffers, frame, pol_vars>>
               /\ emitted' = <<>>
               /\ IF streaming
                  THEN \/ /\ last'.rc = 0
                          /\ ioctls' = << <<"STREAMOFF", 0>> >>
                          /\ ~streaming'
                       \/ /\ last'.rc < 0
                          /\ ioctls' = << <<"STREAMOFF_failed", 0>> >>
                          /\ UNCHANGED <<streaming, drv_vars>>
                  ELSE /\ last'.rc = 0
                       /\ ioctls' = <<>>
                       /\ UNCHANGED <<streaming, drv_vars>> ]_vars

C15_Witness ==
    /\ last.op = "stop_stream"
    /\ ~last.null
    /\ last.rc = 0
    /\ ioctls = <<>>
    /\ ~streaming
    /\ num_buffers = MaxBufs
    /\ current_format # NoFormat

----------------------------------------------------------------------------
(* TEMPEST engine *)

(* C16: get_state returns the cached state and has no effect: no system call, *)
(* no event, no change of the device.  The cache is DISABLED when open        *)
(* returns, is the target after a set_state, and changes in no other way than *)
(* by a set_state (called directly or by profile_apply) or by close.          *)
C16_GetStateReadsCache ==
    [][ /\ (last'.op = "get_tempest_state" /\ ~last'.null)
              => /\ last'.rc = tempest_state
                 /\ ioctls' = <<>>
                 /\ emitted' = <<>>
                 /\ UNCHANGED <<dev_vars, drv_vars, pol_vars>>
        /\ (last'.op = "open_device" /\ opened')
              => tempest_state' = DSV4L2_TEMPEST_DISABLED
        /\ (last'.op = "set_tempest_state" /\ ~last'.null)
              => tempest_state' = last'.arg[1]
        /\ tempest_state' # tempest_state
              => last'.op \in {"set_tempest_state", "profile_apply", "close_device"} ]_vars

C16_Witness ==
    /\ last.op = "get_tempest_state"
    /\ ~last.null
    /\ last.rc = DSV4L2_TEMPEST_HIGH
    /\ tempest_state = DSV4L2_TEMPEST_HIGH
    /\ ioctls = <<>>
    /\ emitted = <<>>

(* C17: set_state called right after the mapping of a profile that names a    *)
(* TEMPEST control was applied with success writes the profile's value for    *)
(* the target to that control with one S_CTRL, then caches the target and     *)
(* logs the transition.                                                       *)
C17_SetStateWritesMappedControl ==
    [][ ( /\ last.op = "apply_tempest_mapping" /\ ~last.null /\ last.rc = 0
          /\ MappedControl # 0
          /\ last'.op = "set_tempest_state" /\ ~last'.null )
            => /\ ioctls' = << <<"S_CTRL", MappedControl, TempestValue(last'.arg[1])>> >>
               /\ tempest_state' = last'.arg[1]
               /\ emitted' = << At(dsv4l2rt_log_tempest_transition(tempest_state,
                                                                    last'.arg[1]), 1) >> ]_vars

(* C18: on a device without a mapped control set_state returns 0 for every    *)
(* target, caches the target, logs exactly one tempest_transition from the    *)
(* state cached before to the target, issues no system call and changes       *)
(* nothing else.                                                              *)
C18_SetStateWithoutMapping ==
    [][ (last'.op = "set_tempest_state" /\ ~last'.null /\ MappedControl = 0)
            => /\ last'.rc = 0
               /\ last'.arg[1] \in TempestStates
               /\ tempest_state' = last'.arg[1]
               /\ emitted' = << [cat |-> "tempest_transition", a |-> tempest_state,
                                 b |-> last'.arg[1], at |-> 0] >>
               /\ ioctls' = <<>>
               /\ UNCHANGED <<opened, profile, layer, current_format, current_parm,
                              streaming, num_buffers, buffers, frame, drv_vars,
                              pol_vars>> ]_vars

(* Leaving LOCKDOWN for LOW *)
C18_Witness ==
    /\ last.op = "set_tempest_state"
    /\ ~last.null
    /\ last.rc = 0
    /\ MappedControl = 0
    /\ last.state = DSV4L2_TEMPEST_LOCKDOWN
    /\ tempest_state = DSV4L2_TEMPEST_LOW
    /\ Len(emitted) = 1

(* C19: after profile_apply of the device's own profile, whose mapping has    *)
(* auto_detect set and no control id, the device's mapped control is the id   *)
(* discover returns for the controls the driver enumerated, and there is no   *)
(* mapped control when discover finds none.                                   *)
C19_AutoDetectInstallsDiscovered ==
    ( /\ last.op = "profile_apply" /\ ~last.null /\ last.rc = 0
      /\ last.arg[1] = profile
      /\ ApplyProfiles[last.arg[1]].tempest_control.control_id = 0
      /\ ApplyProfiles[last.arg[1]].tempest_control.auto_detect )
        => LET d == dsv4l2_discover_tempest_control(DriverControls[last.arg[2]])
           IN  /\ \E i \in 1 .. Len(ioctls) : ioctls[i][1] \in {"QUERYCTRL", "QUERYCTRL_failed"}
               /\ MappedControl = IF d.rc = 0 THEN d.id ELSE 0

(* The call sequence t holds a call named c. *)
Called(t, c) == \E i \in 1 .. Len(t) : t[i][1] = c

(* C20 (as the code has it): profile_apply on valid arguments fails only when *)
(* the format step fails with an error other than ENOSYS; it then returns     *)
(* that error and runs no later step.  Otherwise it returns 0 and attempts    *)
(* every remaining step: the frame rate if the profile gives one, every       *)
(* control preset, and the TEMPEST step, whatever fails among them.           *)
C20_ProfileApplyBestEffort ==
    [][ (last'.op = "profile_apply" /\ ~last'.null)
            => LET P == ApplyProfiles[last'.arg[1]]
                   t == ioctls'
               IN  IF Called(t, "S_FMT_failed") /\ t[1][2] # ENOSYS
                   THEN /\ last'.rc = -t[1][2]
                        /\ Len(t) = 1
                        /\ UNCHANGED <<dev_vars, drv_vars>>
                   ELSE /\ last'.rc = 0
                        /\ (P.pixel_format # 0 /\ P.width # 0 /\ P.height # 0)
                               <=> (Called(t, "S_FMT") \/ Called(t, "S_FMT_failed"))
                        /\ P.fps_num > 0
                               <=> (Called(t, "G_PARM") \/ Called(t, "G_PARM_failed"))
                        /\ \A i \in 1 .. P.num_controls :
                               Cardinality({k \in 1 .. Len(t) :
                                   /\ t[k][1] \in {"S_CTRL", "S_CTRL_failed"}
                                   /\ t[k][2] = P.controls[i].id}) = 1
                        /\ (P.tempest_control.control_id = 0 /\ P.tempest_control.auto_detect)
                               <=> (Called(t, "QUERYCTRL") \/ Called(t, "QUERYCTRL_failed")) ]_vars

C20_Witness ==
    /\ last.op = "profile_apply"
    /\ ~last.null
    /\ last.rc = 0
    /\ Called(ioctls, "S_FMT")
    /\ Called(ioctls, "S_PARM_failed")
    /\ Called(ioctls, "S_CTRL_failed")
    /\ Called(ioctls, "QUERYCTRL")
    /\ current_parm = NoParm

(* C20 (as stated): whenever the format step of profile_apply fails, the call *)
(* returns set_format's error and runs no later step.                         *)
C20_FormatFailureAborts ==
    (last.op = "profile_apply" /\ ~last.null /\ Called(ioctls, "S_FMT_failed"))
        => /\ last.rc = -ioctls[1][2]
           /\ Len(ioctls) = 1

----------------------------------------------------------------------------
(* Capture on a device that is not streaming, or has nothing to hand out *)

(* The gate would let a capture through in the current state. *)
GateAllows ==
    dsv4l2_policy_check_capture(FALSE, dsv4l2_get_tempest_state(FALSE), "capture").rc = 0

(* C21: a capture with valid arguments on a device that is not streaming      *)
(* returns -EINVAL when the gate allowed it, issues no DQBUF (no system call  *)
(* at all) and changes neither the device nor the driver's queues; the gate   *)
(* runs first, so a non-streaming device in LOCKDOWN answers -EACCES.         *)
C21_NotStreamingIsInvalidArgument ==
    [][ (last'.op \in Captures /\ ~last'.null /\ ~streaming)
            => /\ last'.gate # NoRc
               /\ last'.gate = <<0>>
                      => /\ last'.rc = -EINVAL
                         /\ ~Called(ioctls', "DQBUF")
                         /\ ioctls' = <<>>
                         /\ UNCHANGED <<dev_vars, drv_vars>>
               /\ tempest_state = DSV4L2_TEMPEST_LOCKDOWN
                      => /\ last'.rc = -EACCES
                         /\ last'.rc # -EINVAL ]_vars

C21_Witness ==
    /\ CaptureCalled
    /\ last.gate = <<0>>
    /\ ~streaming
    /\ num_buffers > 0
    /\ last.rc = -EINVAL
    /\ ioctls = <<>>

(* C22: a capture that passed the gate on a streaming device whose driver has *)
(* no filled buffer returns -EAGAIN, leaves the device streaming and takes no *)
(* slot out of the driver's queues; -EAGAIN is returned in no other case; and *)
(* once the driver has filled a buffer a capture does not return -EAGAIN and  *)
(* can succeed.                                                               *)
C22_WouldBlock ==
    /\ [][ /\ (last'.op \in Captures /\ last'.gate = <<0>> /\ streaming
                                       /\ drv_done = <<>>)
               => /\ last'.rc = -EAGAIN
                  /\ last'.rc \notin {-EINVAL, -EACCES, -EIO, -ENOMEM}
                  /\ streaming'
                  /\ UNCHANGED <<dev_vars, drv_vars>>
           /\ (last'.op \in Captures /\ last'.rc = -EAGAIN)
               => /\ last'.gate = <<0>>
                  /\ streaming
                  /\ drv_done = <<>> ]_vars
    /\ [] ( (streaming /\ drv_done # <<>> /\ GateAllows)
               => /\ ENABLED (Unobserved(CaptureFrame) /\ last'.rc = 0)
                  /\ ENABLED (Unobserved(CaptureIris) /\ last'.rc = 0) )

C22_Witness ==
    /\ CaptureCalled
    /\ last.rc = -EAGAIN
    /\ streaming
    /\ drv_done = <<>>
    /\ Len(drv_in) = num_buffers
    /\ num_buffers > 0
    /\ ioctls = << <<"DQBUF", 0>> >>

----------------------------------------------------------------------------
(* Slot rotation and the two capture variants *)

(* The ring slots that are in one of the driver's queues. *)
SlotsWithDriver ==
    {drv_in[i] : i \in 1 .. Len(drv_in)} \cup {drv_done[i] : i \in 1 .. Len(drv_done)}

(* C29: a capture hands back to the driver the slot it dequeued: whatever the *)
(* capture returns (a failing QBUF included), the slots in the driver's       *)
(* queues are the same after the call as before it, and a successful capture  *)
(* issued QBUF for the index it got from DQBUF.                               *)
C29_CaptureRequeuesSlot ==
    [][ last'.op \in Captures
            => /\ SlotsWithDriver' = SlotsWithDriver
               /\ Len(drv_in') + Len(drv_done') = Len(drv_in) + Len(drv_done)
               /\ last'.rc = 0
                      => /\ Len(ioctls') = 2
                         /\ ioctls'[1][1] = "DQBUF" /\ ioctls'[2][1] = "QBUF"
                         /\ ioctls'[1][2] = ioctls'[2][2] ]_vars

(* What a capture call leaves behind, the name of the operation aside. *)
CaptureOutcome ==
    <<last.rc, last.gate, last.null, last.state, ioctls, dev_vars, drv_vars,
      [i \in 1 .. Len(emitted) |-> emitted[i].cat]>>

(* C30: from any state, whatever dsv4l2_capture_frame can do (return code,    *)
(* system calls in order, device state, frame fields, driver queues, event    *)
(* categories in order) dsv4l2_capture_iris can do under the same driver      *)
(* behaviour, and conversely.                                                 *)
C30_CaptureVariantsAgree ==
    [][ /\ last'.op = "capture_frame"
            => \E o \in {CaptureOutcome'} :
                   ENABLED (CaptureIris /\ CaptureOutcome' = o)
        /\ last'.op = "capture_iris"
            => \E o \in {CaptureOutcome'} :
                   ENABLED (CaptureFrame /\ CaptureOutcome' = o) ]_vars

C30_Witness ==
    /\ last.op = "capture_iris"
    /\ last.rc = 0
    /\ frame.data # NULL
    /\ frame.len = 1
    /\ ioctls = << <<"DQBUF", 2>>, <<"QBUF", 2>> >>
    /\ Len(emitted) = 3

----------------------------------------------------------------------------
(* Profile loading *)

(* Where the document gives its resolution: the index of the key *)
ResolutionAt(doc) ==
    {i \in 1 .. Len(doc) - 3 :
        /\ doc[i] = Scalar(Keys.resolution)
        /\ doc[i + 1].type = "SEQUENCE_START"
        /\ doc[i + 2].type = "SCALAR" /\ doc[i + 3].type = "SCALAR"}

(* The document the latest load read *)
LoadedDocument == profile_files[last.arg[1]]

(* C27: a successful load of a document whose resolution is the pair [W, H]   *)
(* hands out a profile with width = W and height = H, wherever the resolution *)
(* key stands among the other keys.                                           *)
C27_ResolutionPopulates ==
    (last.op = "profile_load_from_file" /\ last.rc = 0)
        => \A i \in ResolutionAt(LoadedDocument) :
               /\ out_profile.width = atoi(LoadedDocument[i + 2].value)
               /\ out_profile.height = atoi(LoadedDocument[i + 3].value)

(* C28: dsv4l2_profile_load_by_vidpid returns, for every role, vendor and      *)
(* product id, the result code and the profile that dsv4l2_profile_load        *)
(* returns for that role when called with a device path.                      *)
C28_VidpidFallsBackToRole ==
    (last.op = "profile_load_by_vidpid" /\ ~last.null)
        => LET by_role == dsv4l2_profile_load(profile_files, FALSE, FALSE, last.arg[1],
                                              FALSE)
           IN  /\ last.rc = by_role.rc
               /\ by_role.rc = 0 => out_profile = by_role.profile

----------------------------------------------------------------------------
(* Metadata *)

(* Item i of the latest parse ends where the next one, or the buffer, ends *)
ItemEnd(i) == meta.items[i].value + meta.items[i].length

(* C25: parse(buf) reads no offset at or beyond Len(buf); it returns          *)
(* parse_error when an item declares more bytes than remain; when it succeeds *)
(* the items lie one after the other from offset 0 to the end of buf, each    *)
(* with the length its length byte declares and its value inside buf; and     *)
(* find(items, k) returns the first item whose key equals k (its value inside *)
(* buf), NULL when there is none.                                             *)
C25_KlvParseIsMemorySafe ==
    /\ last.op = "parse_klv"
        => /\ meta.reads \subseteq 0 .. Len(klv_buffer) - 1
           /\ (/\ Len(klv_buffer) > KeyLen
               /\ klv_buffer[KeyLen + 1] < 128
               /\ klv_buffer[KeyLen + 1] > Len(klv_buffer) - KeyLen - 1)
                  => meta.rc = "parse_error"
           /\ meta.rc = "parse_error" => meta.items = <<>>
           /\ meta.rc = "ok"
                  => /\ \A i \in 1 .. Len(meta.items) :
                            /\ meta.items[i].at = IF i = 1 THEN 0 ELSE ItemEnd(i - 1)
                            /\ meta.items[i].value > meta.items[i].at + KeyLen
                            /\ meta.items[i].length >= 0
                            /\ ItemEnd(i) <= Len(klv_buffer)
                            /\ klv_buffer[meta.items[i].at + KeyLen + 1] < 128
                                   => meta.items[i].length
                                          = klv_buffer[meta.items[i].at + KeyLen + 1]
                     /\ meta.items = <<>> => klv_buffer = <<>>
                     /\ meta.items # <<>> => ItemEnd(Len(meta.items)) = Len(klv_buffer)
    /\ last.op = "find_klv_item"
        => LET matching == {i \in 1 .. Len(meta.items) : meta.items[i].key = last.arg[1]}
           IN  /\ matching = {} => meta.found = 0
               /\ matching # {}
                      => /\ meta.found \in matching
                         /\ \A i \in matching : meta.found <= i
                         /\ ItemEnd(meta.found) <= Len(klv_buffer)

C25_Witness ==
    /\ last.op = "find_klv_item"
    /\ Len(meta.items) = 1
    /\ meta.items[1].length = 2
    /\ meta.items[1].value = KeyLen + 1
    /\ meta.found = 1

(* C26: sync_metadata returns -1 for no buffers; otherwise the index (from 0) *)
(* of a buffer no other buffer is nearer to the target than, and the lowest   *)
(* such index; target 1150000000 over [1000000000, 1100000000, 1200000000]    *)
(* gives 1.                                                                   *)
C26_SyncNearestLowestIndex ==
    last.op = "sync_metadata"
        => LET target_ns == last.arg[1]
               n == Len(meta_buffers)
               away(j) == IF meta_buffers[j + 1] > target_ns
                          THEN meta_buffers[j + 1] - target_ns
                          ELSE target_ns - meta_buffers[j + 1]
           IN  /\ n = 0 => meta.index = -1
               /\ n > 0 => /\ meta.index \in 0 .. n - 1
                           /\ \A j \in 0 .. n - 1 : away(meta.index) <= away(j)
                           /\ \A j \in 0 .. meta.index - 1 : away(meta.index) < away(j)
               /\ (target_ns = 1150000000
                   /\ meta_buffers = <<1000000000, 1100000000, 1200000000>>)
                      => meta.index = 1

C26_Witness ==
    /\ last.op = "sync_metadata"
    /\ last.arg = <<1150000000>>
    /\ meta_buffers = <<1000000000, 1100000000, 1200000000>>
    /\ meta.index = 1

----------------------------------------------------------------------------
(* Event ring *)

(* The events the threads have stored, counted from their own counters *)
RECURSIVE TotalSent(_)
TotalSent(S) ==
    IF S = {} THEN 0
    ELSE LET t == CHOOSE x \in S : TRUE IN emitters[t].sent + TotalSent(S \ {t})

(* C23: after init with capacity C and n emits, nothing flushed:              *)
(* events_emitted = n, buffer_capacity = C (4096 for a zeroed config),        *)
(* events_dropped = max(0, n - C), and the ring holds the latest min(n, C)    *)
(* events in the order they were emitted.                                     *)
C23_RingCountersAndOverflow ==
    (rt.initialized /\ rt.sink = <<>>)
        => LET n == Len(rt_history)
               C == rt.buffer_capacity
               kept == IF n < C THEN n ELSE C
           IN  /\ n = TotalSent(Threads)
               /\ rt.events_emitted = n
               /\ C = IF rt.config = 0 THEN 4096 ELSE rt.config
               /\ rt.events_dropped = IF n > C THEN n - C ELSE 0
               /\ rt.ring = SubSeq(rt_history, n - kept + 1, n)

C23_Witness ==
    /\ rt.initialized
    /\ rt.sink = <<>>
    /\ rt.buffer_capacity = SmallCapacity
    /\ rt.events_emitted = SmallCapacity + 2
    /\ rt.events_dropped = 2
    /\ Len(rt.ring) = SmallCapacity

(* C24: whatever the interleaving of the emitting threads and the flush:      *)
(* events_emitted is the number of emit calls that stored their event; every  *)
(* stored event is in the sink or the ring exactly once, or was dropped and   *)
(* counted; and the events of one device token stand in the order that device *)
(* emitted them.                                                              *)
C24_ConcurrentEmitIsSafe ==
    rt.initialized
        => LET all == rt.sink \o rt.ring IN
           /\ rt.events_emitted = TotalSent(Threads)
           /\ Len(all) + rt.events_dropped = TotalSent(Threads)
           /\ \A i \in 1 .. Len(all) :
                  /\ all[i].token \in Threads
                  /\ all[i].seq \in 1 .. emitters[all[i].token].sent
           /\ \A i, j \in 1 .. Len(all) :
                  (i < j /\ all[i].token = all[j].token) => all[i].seq < all[j].seq
           /\ \A i, j \in 1 .. Len(all) : all[i] = all[j] => i = j

C24_Witness ==
    /\ rt.initialized
    /\ \A t \in Threads : emitters[t].sent = MaxEmits
    /\ rt.events_emitted = 2 * MaxEmits
    /\ rt.events_dropped > 0
    /\ rt.sink # <<>>
    /\ \E i \in 1 .. Len(rt.sink) - 1 : rt.sink[i].token # rt.sink[i + 1].token

----------------------------------------------------------------------------
(* Restarting a stream, and a start that fails part-way *)

(* C31: a start_stream that succeeds right after a stop_stream that issued    *)
(* STREAMOFF on a device whose ring is allocated leaves every ring slot in    *)
(* one of the driver's queues, so the driver can fill a slot and a capture    *)
(* need not answer -EAGAIN for ever.                                          *)
C31_RestartRequeuesSlots ==
    [][ ( /\ last.op = "stop_stream" /\ last.rc = 0 /\ Called(ioctls, "STREAMOFF")
          /\ last'.op = "start_stream" /\ last'.rc = 0 /\ ~last'.null )
            => /\ streaming'
               /\ SlotsWithDriver' = 1 .. num_buffers'
               /\ drv_in' # <<>> ]_vars

(* C32: a start_stream that fails leaves the device not streaming, and the    *)
(* start_stream that follows a failed one sets the streaming flag only with   *)
(* every one of the num_buffers slots mapped and in a queue of the driver.    *)
C32_FailedStartNeverStreams ==
    [][ (last'.op = "start_stream" /\ ~last'.null)
            => /\ last'.rc # 0 => ~streaming'
               /\ (last.op = "start_stream" /\ last.rc # 0 /\ streaming')
                      => /\ num_buffers' > 0
                         /\ \A i \in 1 .. num_buffers' :
                                /\ buffers'[i].start \notin {NULL, MAP_FAILED}
                                /\ buffers'[i].length > 0
                         /\ SlotsWithDriver' = 1 .. num_buffers' ]_vars

----------------------------------------------------------------------------
(* The frame a capture hands out *)

----------------------------------------------------------------------------
(* Nesting in the profile loader *)

(* The value the document gives the key `want` in its top-level mapping, as a *)
(* one-element sequence, or <<>> when the top-level mapping has no such key:  *)
(* the events are read with their nesting depth, a scalar of the top-level    *)
(* mapping being a key and the scalar after it its value.                     *)
RECURSIVE TopLevelValue(_, _, _, _, _, _)
TopLevelValue(doc, want, i, depth, key, found) ==
    IF i > Len(doc) THEN found
    ELSE IF doc[i].type \in {"MAPPING_START", "SEQUENCE_START"}
    THEN TopLevelValue(doc, want, i + 1, depth + 1, <<>>, found)
    ELSE IF doc[i].type \in {"MAPPING_END", "SEQUENCE_END"}
    THEN TopLevelValue(doc, want, i + 1, depth - 1, <<>>, found)
    ELSE IF doc[i].type = "SCALAR" /\ depth = 1
    THEN IF key = <<>>
         THEN TopLevelValue(doc, want, i + 1, depth, doc[i].value, found)
         ELSE TopLevelValue(doc, want, i + 1, depth, <<>>,
                            IF key = want THEN <<doc[i].value>> ELSE found)
    ELSE TopLevelValue(doc, want, i + 1, depth, key, found)

(* C34: a successful load gives each top-level field the value of its own     *)
(* top-level key and nothing else: the profile id is the top-level `id` (empty *)
(* when the document has none, whatever `id` a nested mapping holds), and the *)
(* role and the fps are those of the top-level keys, wherever a nested        *)
(* mapping or sequence stands before them.                                    *)
C34_ScalarsStayAtTheirLevel ==
    (last.op = "profile_load_from_file" /\ last.rc = 0)
        => LET id   == TopLevelValue(LoadedDocument, Keys.id, 1, 0, <<>>, <<>>)
               role == TopLevelValue(LoadedDocument, Keys.role, 1, 0, <<>>, <<>>)
               fps  == TopLevelValue(LoadedDocument, Keys.fps, 1, 0, <<>>, <<>>)
           IN  /\ out_profile.id = IF id = <<>> THEN <<>> ELSE strncpy(id[1], 63)
               /\ role # <<>> => out_profile.role = strncpy(role[1], 31)
               /\ fps # <<>> => out_profile.fps_num = atoi(fps[1])

============================================================================
